---------------------------- MODULE Spec2Model ----------------------------
(***************************************************************************)
(* A model of python-arango:                                               *)
(*                                                                         *)
(*   - the cursor engine, CursorAPI.create_cursor (arango/api/cursor.py),  *)
(*     a Python generator that streams the pages of a query result and     *)
(*     deletes the server-side cursor when it runs to its end;             *)
(*   - the identity caches of Arango and Database (arango/__init__.py,     *)
(*     arango/database.py), which map names to proxy objects, with         *)
(*     create_database and delete_database;                                *)
(*   - the updates, replaces and deletes of documents, vertices and edges  *)
(*     (arango/api/document.py, vertex.py, edge.py);                       *)
(*   - BatchAPI.execute_batch (arango/api/batch.py).                       *)
(*                                                                         *)
(* Each part has its specification (SpecCursor, SpecCache, SpecMutation,   *)
(* SpecBatch) over the one set of variables, the other parts standing      *)
(* idle; SpecCore takes the cursor engine and the caches together.         *)
(*                                                                         *)
(* The connection object `conn` is the injected collaborator the API       *)
(* classes call with a path only (conn.api_put("/cursor/7")); the model    *)
(* records every call with the positional arguments the code passes and    *)
(* lets the server answer it with any response of a small set.             *)
(***************************************************************************)
EXTENDS Integers, Sequences, FiniteSets, TLC

VARIABLES
    \* ---- cursor engine: one traversal (one generator object) ----
    pc,          \* where the generator body stands
    demand,      \* TRUE while the consumer is inside next(): the body runs
    response,    \* the local `response` of create_cursor
    idx,         \* position of the running for-loop in response.obj["result"]
    cursor_id,   \* the local `cursor_id`
    emitted,     \* the records yielded to the consumer so far, in order
    requests,    \* the calls made on conn so far, in order
    raised,      \* the exception that ended the generator, if any
    extraNext,   \* next() calls made on the generator after it had finished
    delivered,   \* history: the batches the server delivered with status 200
    srvMore,     \* history: the server still holds undelivered pages
    \* ---- identity caches ----
    server,      \* the authoritative name set per resource kind
    caches,      \* per cache: name -> object id of the cached proxy (0: no entry)
    proxies,     \* per live proxy object: its class and the name it was built with
    authoritative, \* history: per cache, the name set its last listing returned
    last,        \* what the last call on a handle did and returned
    \* ---- document, vertex and edge mutations ----
    mutation,    \* the last update, replace or delete call and its outcome
    \* ---- batches ----
    lastBatch,   \* the last execute_batch call and its outcome
    \* ---- connection ----
    connection,  \* the last ArangoConnection construction and its outcome
    \* ---- two traversals side by side ----
    traversals,  \* per generator object: its frame (locals and position)
    stored,      \* per server-side cursor: the pages it has not delivered yet
    \* ---- two refreshes of one cache side by side ----
    threads      \* per thread inside a refresh: its locals and position

cvars == <<pc, demand, response, idx, cursor_id, emitted, requests, raised,
           extraNext, delivered, srvMore>>
kvars == <<server, caches, proxies, authoritative, last>>
avars == <<mutation, lastBatch>>
xvars == <<connection, traversals, stored, threads>>
vars  == <<pc, demand, response, idx, cursor_id, emitted, requests, raised,
           extraNext, delivered, srvMore, server, caches, proxies,
           authoritative, last, mutation, lastBatch, connection, traversals,
           stored, threads>>

---------------------------------------------------------------------------
(* Bounds of the model.                                                    *)

\* Most requests in the list passed to execute_batch.
MaxRequests == 3
\* Longest result batch of one response.
MaxBatch == 2
\* Most continuation requests the server answers with hasMore = true before
\* it reports the last page.
MaxFetch == 2
\* next() calls tried on a finished generator.
MaxExtraNext == 1

---------------------------------------------------------------------------
(* Values.                                                                 *)

\* Python's None, and a key that is missing from a response body.
None == "None"
NoId == "absent"

\* Cursor identifiers the server may put into the "id" field of a response.
CursorIds == {"c1", "c2"}

\* 'HTTP OK' status codes (the integer members).
HTTP_OK == {200, 201, 202, 203, 204, 205, 206}

\* Status codes the server answers with.
StatusCodes == {200, 201, 202, 404, 500}

RECURSIVE Flatten(_)
\* The concatenation of a sequence of batches.
Flatten(bs) == IF bs = <<>> THEN <<>> ELSE Head(bs) \o Flatten(Tail(bs))

\* Records are opaque to the code; the server numbers them as it delivers
\* them, so that a dropped, repeated or reordered record shows.
Batch(sofar, n) == [i \in 1..n |-> sofar + i]

Puts(reqs)    == SelectSeq(reqs, LAMBDA r: r.method = "put")
Deletes(reqs) == SelectSeq(reqs, LAMBDA r: r.method = "delete")

\* The response create_cursor is handed: the answer to POST /cursor, which
\* the caller has checked against HTTP_OK (ArangoDB answers 201). A response
\* that announces more pages names the cursor that holds them.
InitialResponses ==
    { r \in { [method |-> "post", status_code |-> s, result |-> Batch(0, n),
               hasMore |-> h, id |-> i] :
                 s \in {200, 201}, n \in 0..MaxBatch, h \in BOOLEAN,
                 i \in CursorIds \cup {NoId} } :
        r.hasMore => r.id # NoId }

\* What the server may answer to the continuation request number k: any
\* status, a batch, hasMore, and an id that may differ from the first one or
\* be missing.
ContinuationResponses(sofar, k) ==
    { [method |-> "put", status_code |-> s, result |-> Batch(sofar, n),
       hasMore |-> h, id |-> i] :
        s \in StatusCodes, n \in 0..MaxBatch,
        h \in (IF k < MaxFetch THEN BOOLEAN ELSE {FALSE}),
        i \in CursorIds \cup {NoId} }

\* The answer to the deletion request; its body is never read.
DeletionResponses ==
    { [method |-> "delete", status_code |-> s, result |-> <<>>,
       hasMore |-> FALSE, id |-> NoId] : s \in StatusCodes }

---------------------------------------------------------------------------
(* CursorAPI.create_cursor, statement by statement.                        *)

\* conn.api_put("/cursor/{}".format(cursor_id)): one positional argument.
PutRequest(cid) == [method |-> "put", args |-> << <<"/cursor", cid>> >>]

\* conn.api_delete("/cursor/{}".format(cursor_id)): one positional argument.
DeleteRequest(cid) == [method |-> "delete", args |-> << <<"/cursor", cid>> >>]

\* utils.is_string, on the values a data argument takes here: None and
\* strings.
is_string(obj) == obj # None

\* json.dumps, on None.
json_dumps(obj) == CASE obj = None -> "null"

\* The data argument of a call on conn: the parameter's default, None, if
\* the call passes none.
DataArg(request) ==
    IF "data" \in DOMAIN request THEN request.data ELSE None

\* ArangoConnection.api_put: the request handed to the client, whose put
\* passes data on as the body:
\* data=data if is_string(data) else json.dumps(data)
api_put(request) ==
    [method |-> "put", path |-> request.args[1],
     data |-> IF is_string(DataArg(request)) THEN DataArg(request)
              ELSE json_dumps(DataArg(request))]

\* A loop that stops at the first empty batch.
MoreToFetchUntilEmpty(resp) == resp.hasMore /\ Len(resp.result) > 0

\* A loop that goes on for as long as the response names a cursor.
MoreToFetchById(resp) == resp.id # NoId

\* while response.obj["hasMore"]:
MoreToFetch(resp) == resp.hasMore

\* The id read anew from every response that carries one.
CaptureIdLatest(cur, resp) == IF resp.id # NoId THEN resp.id ELSE cur

\* if cursor_id is None: cursor_id = response.obj["id"]
CaptureId(cur, resp) == IF cur = None THEN resp.id ELSE cur

\* The status check the other endpoints use: any member of HTTP_OK.
ContinuationOkAnyOk(status) == status \in HTTP_OK

\* if response.status_code != 200: raise AQLQueryExecuteError(response)
ContinuationOk(status) == status = 200

\* A deletion check that takes every HTTP_OK status, and 404, as success.
DeletionOkAnyOk(status) == status \in HTTP_OK \cup {404}

\* if response.status_code not in {404, 202}: raise CursorDeleteError(response)
DeletionOk(status) == status \in {404, 202}

\* The places where the generator is suspended or about to run a for loop.
InFor == {"for_initial", "for_page"}
Finished == {"done", "raised", "closed"}

\* create_cursor(response): calling a generator function runs none of its
\* body; the generator is created suspended before its first statement.
create_cursor ==
    /\ response \in InitialResponses
    /\ pc = "created"
    /\ demand = FALSE
    /\ idx = 1
    /\ cursor_id = None
    /\ emitted = <<>>
    /\ requests = <<>>
    /\ raised = None
    /\ extraNext = 0
    /\ delivered = <<response.result>>
    /\ srvMore = response.hasMore

\* The consumer asks for the next record: the body resumes where it stood.
ConsumerNext ==
    /\ ~demand
    /\ pc \in {"created"} \cup InFor
    /\ demand' = TRUE
    /\ pc' = IF pc = "created" THEN "for_initial" ELSE pc
    /\ UNCHANGED <<response, idx, cursor_id, emitted, requests, raised,
                   extraNext, delivered, srvMore>>
    /\ UNCHANGED <<kvars, avars, xvars>>

\* for item in response.obj["result"]: yield item
Yield ==
    /\ demand
    /\ pc \in InFor
    /\ idx <= Len(response.result)
    /\ emitted' = Append(emitted, response.result[idx])
    /\ idx' = idx + 1
    /\ demand' = FALSE
    /\ UNCHANGED <<pc, response, cursor_id, requests, raised, extraNext,
                   delivered, srvMore>>
    /\ UNCHANGED <<kvars, avars, xvars>>

\* The for loop has run through the batch; after the first one,
\* cursor_id = None.
EndFor ==
    /\ demand
    /\ pc \in InFor
    /\ idx > Len(response.result)
    /\ pc' = "while"
    /\ cursor_id' = IF pc = "for_initial" THEN None ELSE cursor_id
    /\ UNCHANGED <<demand, response, idx, emitted, requests, raised,
                   extraNext, delivered, srvMore>>
    /\ UNCHANGED <<kvars, avars, xvars>>

\* A turn of the while loop that deletes the cursor before it raises for a
\* failed continuation request.
FetchDeletesOnError ==
    /\ demand
    /\ pc = "while"
    /\ MoreToFetch(response)
    /\ LET cid == CaptureId(cursor_id, response) IN
       \E resp \in ContinuationResponses(Len(Flatten(delivered)),
                                         Len(Puts(requests)) + 1) :
          /\ cursor_id' = cid
          /\ response' = resp
          /\ delivered' = IF resp.status_code = 200
                          THEN Append(delivered, resp.result) ELSE delivered
          /\ srvMore' = IF resp.status_code = 200 THEN resp.hasMore ELSE srvMore
          /\ IF ContinuationOk(resp.status_code)
             THEN /\ pc' = "for_page"
                  /\ idx' = 1
                  /\ requests' = Append(requests, PutRequest(cid))
                  /\ UNCHANGED <<demand, raised>>
             ELSE /\ pc' = "raised"
                  /\ raised' = "AQLQueryExecuteError"
                  /\ demand' = FALSE
                  /\ requests' = requests \o
                                    <<PutRequest(cid), DeleteRequest(cid)>>
                  /\ UNCHANGED idx
    /\ UNCHANGED <<emitted, extraNext>>
    /\ UNCHANGED <<kvars, avars, xvars>>

\* One turn of the while loop up to its for loop: capture the id, ask for the
\* next batch, check the status.
Fetch ==
    /\ demand
    /\ pc = "while"
    /\ MoreToFetch(response)
    /\ LET cid == CaptureId(cursor_id, response) IN
       \E resp \in ContinuationResponses(Len(Flatten(delivered)),
                                         Len(Puts(requests)) + 1) :
          /\ cursor_id' = cid
          /\ requests' = Append(requests, PutRequest(cid))
          /\ response' = resp
          /\ delivered' = IF resp.status_code = 200
                          THEN Append(delivered, resp.result) ELSE delivered
          /\ srvMore' = IF resp.status_code = 200 THEN resp.hasMore ELSE srvMore
          /\ IF ContinuationOk(resp.status_code)
             THEN /\ pc' = "for_page"
                  /\ idx' = 1
                  /\ UNCHANGED <<demand, raised>>
             ELSE /\ pc' = "raised"
                  /\ raised' = "AQLQueryExecuteError"
                  /\ demand' = FALSE
                  /\ UNCHANGED idx
    /\ UNCHANGED <<emitted, extraNext>>
    /\ UNCHANGED <<kvars, avars, xvars>>

\* The while condition is false: the loop is left.
ExitLoop ==
    /\ demand
    /\ pc = "while"
    /\ ~MoreToFetch(response)
    /\ pc' = "cleanup"
    /\ UNCHANGED <<demand, response, idx, cursor_id, emitted, requests,
                   raised, extraNext, delivered, srvMore>>
    /\ UNCHANGED <<kvars, avars, xvars>>

\* if cursor_id is not None: delete the cursor and check the status; then the
\* body ends and next() raises StopIteration.
Cleanup ==
    /\ demand
    /\ pc = "cleanup"
    /\ demand' = FALSE
    /\ IF cursor_id # None
       THEN \E resp \in DeletionResponses :
              /\ requests' = Append(requests, DeleteRequest(cursor_id))
              /\ response' = resp
              /\ IF DeletionOk(resp.status_code)
                 THEN pc' = "done" /\ UNCHANGED raised
                 ELSE pc' = "raised" /\ raised' = "CursorDeleteError"
       ELSE /\ pc' = "done"
            /\ UNCHANGED <<requests, response, raised>>
    /\ UNCHANGED <<idx, cursor_id, emitted, extraNext, delivered, srvMore>>
    /\ UNCHANGED <<kvars, avars, xvars>>

\* A generator whose body deletes the cursor in a finally clause when it is
\* closed early.
ConsumerStopWithCleanup ==
    /\ ~demand
    /\ pc \in {"created"} \cup InFor
    /\ pc' = "closed"
    /\ requests' = IF cursor_id # None
                   THEN Append(requests, DeleteRequest(cursor_id))
                   ELSE IF response.hasMore
                        THEN Append(requests, DeleteRequest(response.id))
                        ELSE requests
    /\ UNCHANGED <<demand, response, idx, cursor_id, emitted, raised,
                   extraNext, delivered, srvMore>>
    /\ UNCHANGED <<kvars, avars, xvars>>

\* The consumer stops iterating (break, or the generator is dropped) while the
\* generator is suspended: the generator is closed at its yield, and the body
\* has no try/finally that would run.
ConsumerStop ==
    /\ ~demand
    /\ pc \in {"created"} \cup InFor
    /\ pc' = "closed"
    /\ UNCHANGED <<demand, response, idx, cursor_id, emitted, requests,
                   raised, extraNext, delivered, srvMore>>
    /\ UNCHANGED <<kvars, avars, xvars>>

\* A restartable sequence: consuming it again starts over at its first record.
NextExhaustedRestarts ==
    /\ ~demand
    /\ pc \in Finished
    /\ extraNext < MaxExtraNext
    /\ extraNext' = extraNext + 1
    /\ emitted' = IF emitted = <<>> THEN emitted
                  ELSE Append(emitted, Head(emitted))
    /\ UNCHANGED <<pc, demand, response, idx, cursor_id, requests, raised,
                   delivered, srvMore>>
    /\ UNCHANGED <<kvars, avars, xvars>>

\* next() on a generator that has finished raises StopIteration and runs
\* nothing of the body.
NextExhausted ==
    /\ ~demand
    /\ pc \in Finished
    /\ extraNext < MaxExtraNext
    /\ extraNext' = extraNext + 1
    /\ UNCHANGED <<pc, demand, response, idx, cursor_id, emitted, requests,
                   raised, delivered, srvMore>>
    /\ UNCHANGED <<kvars, avars, xvars>>

---------------------------------------------------------------------------
(* Specifications.                                                         *)

\* No call on a handle is in progress and nothing is cached.
CachesIdle ==
    /\ server = <<>>
    /\ caches = <<>>
    /\ proxies = <<>>
    /\ authoritative = <<>>
    /\ last = <<>>

\* No document, vertex or edge call has been made.
NoMutation == [func |-> "none"]

\* No batch has been executed.
NoBatch == [op |-> "none"]

MutationsIdle == mutation = NoMutation /\ lastBatch = NoBatch

\* No connection has been constructed.
NoConnection == [op |-> "none"]

ConnectionIdle == connection = NoConnection

TraversalsIdle == traversals = <<>> /\ stored = <<>>

ThreadsIdle == threads = <<>>

ApiIdle == MutationsIdle /\ ConnectionIdle /\ TraversalsIdle /\ ThreadsIdle

InitCursor == create_cursor /\ CachesIdle /\ ApiIdle

NextCursor ==
    \/ ConsumerNext
    \/ Yield
    \/ EndFor
    \/ Fetch
    \/ ExitLoop
    \/ Cleanup
    \/ ConsumerStop
    \/ NextExhausted

\* One traversal of a query result, against any server and any consumer.
SpecCursor == InitCursor /\ [][NextCursor]_vars


---------------------------------------------------------------------------
(* The identity caches: Arango._database_cache, Database._collection_cache *)
(* and Database._graph_cache.                                              *)

\* Resource names, unique within their kind.
Names == {"foo", "bar"}

\* The kinds of resource a cache resolves.
Kinds == {"db", "col", "graph"}

\* The caches of an Arango object and of the Database objects hs: one of
\* databases in the Arango object, one of collections and one of graphs in
\* every Database object.
CachesOf(hs) == {<<"arango", "db">>} \cup (hs \X {"col", "graph"})

\* Object ids: 0 stands for no object.
ObjectsIn(cs) == {cs[c][n] : c \in DOMAIN cs, n \in Names} \ {0}

\* Status codes the server answers a name listing with.
ListStatuses == {200, 201, 500}

\* No call has been made on a handle since the server's names last changed.
NoCall == [op |-> "none"]

\* self._database_cache = {} (and _collection_cache, _graph_cache)
EmptyCache == [n \in Names |-> 0]

\* The endpoints a listing of the kind's names reads, in order:
\* list_databases reads the user's databases and then all of them.
ListPaths(kind) ==
    CASE kind = "db"    -> <<"/database/user", "/database">>
      [] kind = "col"   -> <<"/collection">>
      [] kind = "graph" -> <<"/gharial">>

\* The status check of the kind's listing.
ListOk(kind, status) ==
    IF kind = "graph" THEN status \in {200, 202} ELSE status \in HTTP_OK

\* The error a failed listing raises.
ListError(kind) ==
    CASE kind = "db"    -> "DatabaseListError"
      [] kind = "col"   -> "CollectionListError"
      [] kind = "graph" -> "GraphListError"

\* The error resolve raises for a name the refreshed cache does not hold.
NotFoundError(kind) ==
    CASE kind = "db"    -> "DatabaseNotFoundError"
      [] kind = "col"   -> "CollectionNotFoundError"
      [] kind = "graph" -> "GraphNotFoundError"

\* A listing that asks again, once, when a request fails its status check.
ListingAsksAgain(kind, sts) ==
    LET paths == ListPaths(kind)
        bad   == {i \in 1..Len(paths) : ~ListOk(kind, sts[i])}
        upto  == IF bad = {} THEN Len(paths)
                 ELSE CHOOSE i \in bad : \A j \in bad : i <= j
        made  == [i \in 1..upto |->
                    [method |-> "get", args |-> <<paths[i]>>,
                     status |-> sts[i]]]
    IN  [calls |-> IF bad = {} THEN made ELSE Append(made, made[upto]),
         ok    |-> bad = {}]

\* The listing under the statuses sts: the GET requests made, up to the
\* first one whose status fails the check, and whether all passed.
Listing(kind, sts) ==
    LET paths == ListPaths(kind)
        bad   == {i \in 1..Len(paths) : ~ListOk(kind, sts[i])}
        upto  == IF bad = {} THEN Len(paths)
                 ELSE CHOOSE i \in bad : \A j \in bad : i <= j
    IN  [calls |-> [i \in 1..upto |->
                      [method |-> "get", args |-> <<paths[i]>>,
                       status |-> sts[i]]],
         ok    |-> bad = {}]

\* The parameters of the proxy class's __init__, after self.
InitParams(kind) ==
    CASE kind = "db"    -> <<"connection", "database_name">>
      [] kind = "col"   -> <<"connection", "collection_name">>
      [] kind = "graph" -> <<"connection", "graph_name">>

\* How the refresh calls the proxy class: Database(self.conn, db_name),
\* Collection(connection=..., collection_name=...),
\* Graph(connection=..., name=...).
ProxyCall(kind) ==
    CASE kind = "db"    -> [pos |-> 2, kw |-> {}]
      [] kind = "col"   -> [pos |-> 0, kw |-> {"connection", "collection_name"}]
      [] kind = "graph" -> [pos |-> 0, kw |-> {"connection", "name"}]

\* Python binds the call to the parameters (none has a default): every
\* keyword names a parameter not filled by position, and none is left over.
Binds(params, call) ==
    /\ call.pos <= Len(params)
    /\ call.kw \subseteq {params[i] : i \in (call.pos + 1)..Len(params)}
    /\ call.pos + Cardinality(call.kw) = Len(params)

\* The id of a newly constructed object: one no live object has.
NewObject(used) == CHOOSE i \in 1..(Cardinality(used) + 1) : i \notin used

RECURSIVE AddAll(_, _, _)
\* for name in real - cached: cache[name] = Proxy(...), a new object each.
AddAll(cache, names, used) ==
    IF names = {} THEN cache
    ELSE LET n == CHOOSE x \in names : TRUE
             o == NewObject(used)
         IN  AddAll([cache EXCEPT ![n] = o], names \ {n}, used \cup {o})

Keys(cache) == {n \in Names : cache[n] # 0}

\* A refresh that only adds: it keeps the entries of names no longer listed.
RefreshedKeepsStale(cache, kind, real, used) ==
    IF real \ Keys(cache) # {} /\ ~Binds(InitParams(kind), ProxyCall(kind))
    THEN [cache |-> cache, error |-> "TypeError"]
    ELSE [cache |-> AddAll(cache, real \ Keys(cache), used), error |-> None]

\* A refresh that clears the cache and builds a proxy for every listed name.
RefreshedRebuildsAll(cache, kind, real, used) ==
    IF real # {} /\ ~Binds(InitParams(kind), ProxyCall(kind))
    THEN [cache |-> EmptyCache, error |-> "TypeError"]
    ELSE [cache |-> AddAll(EmptyCache, real, used), error |-> None]

\* _invalidate_database_cache / _update_collection_cache /
\* _update_graph_cache once the names are listed: drop the entries of names
\* the server no longer lists, then construct a proxy for every listed name
\* that has no entry. A constructor call that does not bind raises TypeError
\* at the first name to add, after the stale entries were dropped.
Refreshed(cache, kind, real, used) ==
    LET cached  == Keys(cache)
        dropped == [n \in Names |-> IF n \in cached \ real THEN 0 ELSE cache[n]]
        new     == real \ cached
    IN  IF new = {} THEN [cache |-> dropped, error |-> None]
        ELSE IF ~Binds(InitParams(kind), ProxyCall(kind))
             THEN [cache |-> dropped, error |-> "TypeError"]
             ELSE [cache |-> AddAll(dropped, new, used), error |-> None]

\* A resolve that asks the server on every call.
CacheHitNever(cache, name) == FALSE

\* if name in self._database_cache:
CacheHit(cache, name) == cache[name] # 0

\* The class of the kind's proxies.
ProxyClass(kind) ==
    CASE kind = "db"    -> "Database"
      [] kind = "col"   -> "Collection"
      [] kind = "graph" -> "Graph"

\* The proxies alive in the caches cs: those of ps that are still cached,
\* and for every new object of the cache c the one the refresh built with
\* the name it is stored under (cache[name] = Proxy(conn, name)).
Constructed(ps, cs, c) ==
    [o \in ObjectsIn(cs) |->
        IF o \in DOMAIN ps THEN ps[o]
        ELSE [class |-> ProxyClass(c[2]),
              name  |-> CHOOSE n \in Names : cs[c][n] = o]]

\* A refresh that empties the cache before it asks the server.
RefreshClearsFirst(cache, kind, sts, real, used) ==
    LET lst == Listing(kind, sts)
        r   == Refreshed(EmptyCache, kind, real, used)
    IN  IF lst.ok
        THEN [calls |-> lst.calls, listed |-> TRUE, fetched |-> real,
              cache |-> r.cache, error |-> r.error]
        ELSE [calls |-> lst.calls, listed |-> FALSE, fetched |-> {},
              cache |-> EmptyCache, error |-> ListError(kind)]

\* One refresh of a cache: the listing under the statuses sts, and, if it
\* passed its status checks, the update of the cache against the listed
\* names real. A failed listing raises before the cache is touched.
Refresh(cache, kind, sts, real, used) ==
    LET lst == Listing(kind, sts)
        r   == Refreshed(cache, kind, real, used)
    IN  IF lst.ok
        THEN [calls |-> lst.calls, listed |-> TRUE, fetched |-> real,
              cache |-> r.cache, error |-> r.error]
        ELSE [calls |-> lst.calls, listed |-> FALSE, fetched |-> {},
              cache |-> cache, error |-> ListError(kind)]

\* The body of database(name), collection(name), graph(name) on a cache:
\* what it does, what it returns or raises, and the cache it leaves.
Resolved(cache, kind, name, sts, real, used) ==
    IF CacheHit(cache, name)
    THEN [hit |-> TRUE, refreshes |-> 0, listed |-> FALSE, fetched |-> {},
          rechecks |-> 0, calls |-> <<>>, outcome |-> "proxy",
          result |-> cache[name], after |-> cache]
    ELSE LET r == Refresh(cache, kind, sts, real, used)
         IN  [hit |-> FALSE, refreshes |-> 1, listed |-> r.listed,
              fetched |-> r.fetched, calls |-> r.calls, after |-> r.cache,
              rechecks |-> IF r.error = None THEN 1 ELSE 0,
              outcome |-> IF r.error # None THEN r.error
                          ELSE IF r.cache[name] # 0 THEN "proxy"
                          ELSE NotFoundError(kind),
              result |-> IF r.error = None THEN r.cache[name] ELSE 0]

\* One dict per kind, shared by every handle (a class attribute).
StoredInClassDict(cs, c, cache) ==
    [x \in DOMAIN cs |-> IF x[2] = c[2] THEN cache ELSE cs[x]]

\* self._database_cache = {}, self._collection_cache = {},
\* self._graph_cache = {} in __init__: each handle has dicts of its own, and
\* a method writes the dict of the handle it is called on.
Stored(cs, c, cache) == [cs EXCEPT ![c] = cache]

\* Arango.database(name), Database.collection(name), Database.graph(name)
\* on the cache c of a handle.
Resolve(c, name) ==
    \E sts \in [1..Len(ListPaths(c[2])) -> ListStatuses] :
        LET v == Resolved(caches[c], c[2], name, sts, server[c[2]],
                          ObjectsIn(caches))
            cs == Stored(caches, c, v.after)
        IN  /\ caches' = cs
            /\ proxies' = Constructed(proxies, cs, c)
            /\ authoritative' = IF v.listed
                                THEN [authoritative EXCEPT ![c] = v.fetched]
                                ELSE authoritative
            /\ last' = [op |-> "resolve", cache |-> c, name |-> name,
                        cached |-> Keys(caches[c]), hit |-> v.hit, refreshes |-> v.refreshes,
                        listed |-> v.listed, fetched |-> v.fetched,
                        rechecks |-> v.rechecks, calls |-> v.calls,
                        outcome |-> v.outcome, result |-> v.result]
            /\ UNCHANGED server

\* A call of database(), collection() or graph() by the program.
ResolveCall ==
    /\ \E c \in DOMAIN caches, name \in Names : Resolve(c, name)
    /\ UNCHANGED <<cvars, avars, xvars>>

\* Another client of the server creates or drops a database, a collection
\* or a graph.
ServerChange ==
    /\ \E kind \in DOMAIN server, n \in Names :
         server' = [server EXCEPT ![kind] =
                       IF n \in @ THEN @ \ {n} ELSE @ \cup {n}]
    /\ last' = NoCall
    /\ UNCHANGED <<caches, proxies, authoritative>>
    /\ UNCHANGED <<cvars, avars, xvars>>

\* The database cache of the Arango object.
DbCache == <<"arango", "db">>

\* The server's answers to POST /database: created, or a conflict with a
\* database of the name, or a failure.
CreateAnswers(name) ==
    IF name \in server["db"] THEN {409, 500} ELSE {201, 500}

\* The server's answers to DELETE /database/<name>: dropped, or not found,
\* or a failure.
DeleteAnswers(name) ==
    IF name \in server["db"] THEN {200, 500} ELSE {404, 500}

\* delete_database without its closing refresh.
RefreshAfterDeleteSkipped(cache, sts, real, used) ==
    [calls |-> <<>>, listed |-> FALSE, fetched |-> {}, cache |-> cache,
     error |-> None]

\* self._invalidate_database_cache() at the end of delete_database.
RefreshAfterDelete(cache, sts, real, used) ==
    Refresh(cache, "db", sts, real, used)

\* Arango.create_database(name): POST /database, then a refresh of the
\* database cache, then return self.database(name).
create_database(name) ==
    \E st \in CreateAnswers(name) :
        LET post == [method |-> "post", args |-> <<"/database">>,
                     data |-> [name |-> name], status |-> st]
            call == [op |-> "create_database", cache |-> DbCache,
                     name |-> name, cached |-> Keys(caches[DbCache]),
                     status |-> st]
        IN  IF st \notin HTTP_OK
            THEN /\ last' = call @@ [calls |-> <<post>>, refreshes |-> 0,
                                     listed |-> FALSE, fetched |-> {},
                                     outcome |-> "DatabaseCreateError",
                                     result |-> 0]
                 /\ UNCHANGED <<server, caches, proxies, authoritative>>
            ELSE \E sts1 \in [1..Len(ListPaths("db")) -> ListStatuses] :
                 LET real == server["db"] \cup {name}
                     r    == Refresh(caches[DbCache], "db", sts1, real,
                                     ObjectsIn(caches))
                     cs1  == Stored(caches, DbCache, r.cache)
                 IN
                 \* the answers to the listing of database(name), if it lists
                 \E sts2 \in IF r.error = None /\ ~CacheHit(r.cache, name)
                              THEN [1..Len(ListPaths("db")) -> ListStatuses]
                              ELSE {sts1} :
                   LET v    == Resolved(r.cache, "db", name, sts2, real,
                                        ObjectsIn(cs1))
                       cs2  == Stored(caches, DbCache, v.after)
                   IN  /\ server' = [server EXCEPT !["db"] = real]
                       /\ IF r.error # None
                          THEN /\ caches' = cs1
                               /\ proxies' = Constructed(proxies, cs1, DbCache)
                               /\ authoritative' =
                                    IF r.listed
                                    THEN [authoritative EXCEPT
                                             ![DbCache] = r.fetched]
                                    ELSE authoritative
                               /\ last' = call @@
                                    [calls |-> <<post>> \o r.calls,
                                     refreshes |-> 1, listed |-> r.listed,
                                     fetched |-> r.fetched,
                                     outcome |-> r.error, result |-> 0]
                          ELSE /\ caches' = cs2
                               /\ proxies' = Constructed(proxies, cs2, DbCache)
                               /\ authoritative' =
                                    [authoritative EXCEPT ![DbCache] =
                                        IF v.listed THEN v.fetched
                                        ELSE r.fetched]
                               /\ last' = call @@
                                    [calls |-> <<post>> \o r.calls \o v.calls,
                                     refreshes |-> 1 + v.refreshes,
                                     listed |-> TRUE,
                                     fetched |-> IF v.listed THEN v.fetched
                                                 ELSE r.fetched,
                                     outcome |-> v.outcome,
                                     result |-> v.result]

\* Arango.delete_database(name, safe_delete): DELETE /database/<name>, then
\* a refresh of the database cache; a 404 is let through under safe_delete.
delete_database(name, safe_delete) ==
    \E st \in DeleteAnswers(name) :
        LET del  == [method |-> "delete", args |-> << <<"/database", name>> >>,
                     status |-> st]
            call == [op |-> "delete_database", cache |-> DbCache,
                     name |-> name, cached |-> Keys(caches[DbCache]),
                     status |-> st,
                     safe_delete |-> safe_delete]
        IN  IF st \notin HTTP_OK /\ ~(st = 404 /\ safe_delete)
            THEN /\ last' = call @@ [calls |-> <<del>>, refreshes |-> 0,
                                     listed |-> FALSE, fetched |-> {},
                                     outcome |-> "DatabaseDeleteError",
                                     result |-> 0]
                 /\ UNCHANGED <<server, caches, proxies, authoritative>>
            ELSE \E sts \in [1..Len(ListPaths("db")) -> ListStatuses] :
                   LET real == IF st \in HTTP_OK THEN server["db"] \ {name}
                               ELSE server["db"]
                       r    == RefreshAfterDelete(caches[DbCache], sts, real,
                                                  ObjectsIn(caches))
                       cs   == Stored(caches, DbCache, r.cache)
                   IN  /\ server' = [server EXCEPT !["db"] = real]
                       /\ caches' = cs
                       /\ proxies' = Constructed(proxies, cs, DbCache)
                       /\ authoritative' =
                            IF r.listed
                            THEN [authoritative EXCEPT ![DbCache] = r.fetched]
                            ELSE authoritative
                       /\ last' = call @@
                            [calls |-> <<del>> \o r.calls,
                             refreshes |-> IF r.calls = <<>> THEN 0 ELSE 1,
                             listed |-> r.listed, fetched |-> r.fetched,
                             outcome |-> IF r.error # None THEN r.error
                                         ELSE "returned",
                             result |-> 0]

\* A call of create_database() by the program.
CreateDatabaseCall ==
    /\ DbCache \in DOMAIN caches
    /\ \E name \in Names : create_database(name)
    /\ UNCHANGED <<cvars, avars, xvars>>

\* A call of delete_database() by the program.
DeleteDatabaseCall ==
    /\ DbCache \in DOMAIN caches
    /\ \E name \in Names, safe_delete \in BOOLEAN :
         delete_database(name, safe_delete)
    /\ UNCHANGED <<cvars, avars, xvars>>

\* No query is running.
CursorIdle ==
    /\ pc = "idle"
    /\ demand = FALSE
    /\ response = None
    /\ idx = 0
    /\ cursor_id = None
    /\ emitted = <<>>
    /\ requests = <<>>
    /\ raised = None
    /\ extraNext = 0
    /\ delivered = <<>>
    /\ srvMore = FALSE

\* The caches a run follows: the database cache of an Arango object, or the
\* collection cache of a Database object, or its graph cache. Each cache is
\* a dict of its own object and no operation touches two of them.
KindSets == {{"db"}, {"col"}, {"graph"}}

\* Arango.__init__ and Database.__init__: every cache starts empty, whatever
\* the server holds.
InitCache ==
    /\ \E ks \in KindSets :
         LET cs == {c \in CachesOf({"d1"}) : c[2] \in ks}
         IN  /\ server \in [ks -> SUBSET Names]
             /\ caches = [c \in cs |-> EmptyCache]
             /\ authoritative = [c \in cs |-> {}]
    /\ proxies = <<>>
    /\ last = NoCall
    /\ CursorIdle
    /\ ApiIdle

NextCache ==
    \/ ResolveCall
    \/ CreateDatabaseCall
    \/ DeleteDatabaseCall
    \/ ServerChange

\* The caches of one Arango object and one Database object, against a
\* server whose names change.
SpecCache == InitCache /\ [][NextCache]_vars

\* The core as a whole: a run is one traversal of a query result, or the
\* life of one identity cache.
InitCore == InitCursor \/ InitCache

NextCore ==
    \/ NextCursor
    \/ NextCache

SpecCore == InitCore /\ [][NextCore]_vars

---------------------------------------------------------------------------
(* Updates, replaces and deletes of documents, vertices and edges:         *)
(* DocumentAPI, VertexAPI and EdgeAPI (arango/api/document.py, vertex.py,  *)
(* edge.py). Every method builds the request's params, returns the request *)
(* descriptor under _batch, and otherwise sends it and checks the status.  *)

\* Revisions a caller passes as rev or in data["_rev"].
Revs == {"r1", "r2"}

\* The data argument: a dict with or without the key "_rev".
DataValues == {"x" :> "v"} \cup {("x" :> "v") @@ ("_rev" :> r) : r \in Revs}

\* Status codes the server answers a mutation with.
MutationStatuses == {200, 202, 404, 412, 500}

\* if rev is not None: params["rev"] = rev; params["policy"] = "error"
\* elif "_rev" in data: the same with data["_rev"]   (DocumentAPI)
RevAndPolicy(params, rev, data) ==
    IF rev # None
    THEN ("rev" :> rev) @@ ("policy" :> "error") @@ params
    ELSE IF "_rev" \in DOMAIN data
         THEN ("rev" :> data["_rev"]) @@ ("policy" :> "error") @@ params
         ELSE params

\* if rev is not None: params["rev"] = rev
\* elif "_rev" in data: params["rev"] = data["_rev"]
RevElseDataRev(params, rev, data) ==
    IF rev # None THEN ("rev" :> rev) @@ params
    ELSE IF "_rev" \in DOMAIN data THEN ("rev" :> data["_rev"]) @@ params
    ELSE params

\* if rev is not None: params["rev"] = rev
\* if "_rev" in data: params["rev"] = data["_rev"]    (replace_vertex)
RevThenDataRev(params, rev, data) ==
    LET p1 == IF rev # None THEN ("rev" :> rev) @@ params ELSE params
    IN  IF "_rev" \in DOMAIN data THEN ("rev" :> data["_rev"]) @@ p1 ELSE p1

\* if rev is not None: params["rev"] = rev   (the deletes)
RevOnly(params, rev) ==
    IF rev # None THEN ("rev" :> rev) @@ params ELSE params

\* A mutation that takes a 412 for any other failure.
RevisionConflictUnseen(status) == FALSE

\* if res.status_code == 412:
RevisionConflict(status) == status = 412

\* The common tail of the nine methods: under _batch the descriptor desc is
\* returned and nothing is sent; otherwise the request is sent, a 412 raises
\* the revision error revErr, any other status outside HTTP_OK raises err,
\* and the response body is returned (status 0: no response).
Mutated(desc, batch, status, revErr, err) ==
    IF batch
    THEN [sent |-> <<>>, status |-> 0, outcome |-> "descriptor",
          result |-> desc]
    ELSE [sent |-> <<desc>>, status |-> status, result |-> <<>>,
          outcome |-> IF RevisionConflict(status) THEN revErr
                      ELSE IF status \notin HTTP_OK THEN err
                      ELSE "returned"]

\* DocumentAPI.update_document
update_document(key, data, rev, keep_none, wait_for_sync, batch, status) ==
    LET params == RevAndPolicy(("waitForSync" :> wait_for_sync)
                               @@ ("keepNull" :> keep_none), rev, data)
    IN  Mutated([method |-> "patch", path |-> <<"document", "col", key>>,
                 data |-> data, params |-> params],
                batch, status, "DocumentRevisionError", "DocumentUpdateError")

\* DocumentAPI.replace_document
replace_document(key, data, rev, wait_for_sync, batch, status) ==
    LET params == RevAndPolicy("waitForSync" :> wait_for_sync, rev, data)
    IN  Mutated([method |-> "put", path |-> <<"document", "col", key>>,
                 data |-> data, params |-> params],
                batch, status, "DocumentRevisionError", "DocumentReplaceError")

\* DocumentAPI.delete_document
delete_document(key, rev, wait_for_sync, batch, status) ==
    LET params == IF rev # None
                  THEN ("rev" :> rev) @@ ("policy" :> "error")
                       @@ ("waitForSync" :> wait_for_sync)
                  ELSE "waitForSync" :> wait_for_sync
    IN  Mutated([method |-> "delete", path |-> <<"document", "col", key>>,
                 params |-> params],
                batch, status, "DocumentRevisionError", "DocumentDeleteError")

\* VertexAPI.update_vertex
update_vertex(vertex_id, data, rev, keep_none, wait_for_sync, batch, status) ==
    LET params == RevElseDataRev(("waitForSync" :> wait_for_sync)
                                 @@ ("keepNull" :> keep_none), rev, data)
    IN  Mutated([method |-> "patch",
                 path |-> <<"gharial", "g", "vertex", vertex_id>>,
                 data |-> data, params |-> params],
                batch, status, "VertexRevisionError", "VertexUpdateError")

\* VertexAPI.replace_vertex
replace_vertex(vertex_id, data, rev, wait_for_sync, batch, status) ==
    LET params == RevThenDataRev("waitForSync" :> wait_for_sync, rev, data)
    IN  Mutated([method |-> "put",
                 path |-> <<"gharial", "g", "vertex", vertex_id>>,
                 data |-> data, params |-> params],
                batch, status, "VertexRevisionError", "VertexReplaceError")

\* VertexAPI.delete_vertex
delete_vertex(vertex_id, rev, wait_for_sync, batch, status) ==
    LET params == RevOnly("waitForSync" :> wait_for_sync, rev)
    IN  Mutated([method |-> "delete",
                 path |-> <<"gharial", "g", "vertex", vertex_id>>,
                 params |-> params],
                batch, status, "VertexRevisionError", "VertexDeleteError")

\* EdgeAPI.update_edge
update_edge(edge_id, data, rev, keep_none, wait_for_sync, batch, status) ==
    LET params == RevElseDataRev(("waitForSync" :> wait_for_sync)
                                 @@ ("keepNull" :> keep_none), rev, data)
    IN  Mutated([method |-> "patch",
                 path |-> <<"gharial", "g", "edge", edge_id>>,
                 data |-> data, params |-> params],
                batch, status, "EdgeRevisionError", "EdgeUpdateError")

\* EdgeAPI.replace_edge
replace_edge(edge_id, data, rev, wait_for_sync, batch, status) ==
    LET params == RevElseDataRev("waitForSync" :> wait_for_sync, rev, data)
    IN  Mutated([method |-> "put",
                 path |-> <<"gharial", "g", "edge", edge_id>>,
                 data |-> data, params |-> params],
                batch, status, "EdgeRevisionError", "EdgeReplaceError")

\* EdgeAPI.delete_edge: under _batch the descriptor is returned before rev
\* is put into the params.
delete_edge(edge_id, rev, wait_for_sync, batch, status) ==
    LET params == IF batch THEN "waitForSync" :> wait_for_sync
                  ELSE RevOnly("waitForSync" :> wait_for_sync, rev)
    IN  Mutated([method |-> "delete",
                 path |-> <<"gharial", "g", "edge", edge_id>>,
                 params |-> params],
                batch, status, "EdgeRevisionError", "EdgeDeleteError")

\* The rev argument: a revision, or the default None.
RevArgs == Revs \cup {None}

\* A delete takes no data.
NoData == <<>>

\* The record of a call of func with these arguments that did r.
Called(func, data, rev, batch, r) ==
    [func |-> func, data |-> data, rev |-> rev, batch |-> batch,
     sent |-> r.sent, status |-> r.status, outcome |-> r.outcome,
     result |-> r.result]

\* The remaining arguments of a call; keep_none is FALSE for a method
\* that has no such parameter.
CallArgs(wait_for_sync, keep_none) ==
    [wait_for_sync |-> wait_for_sync, keep_none |-> keep_none]

\* The calls: any arguments and any answer of the server (no answer is drawn
\* for a call that sends nothing).
UpdateDocument ==
    \E data \in DataValues,
       rev \in RevArgs,
       keep_none \in BOOLEAN,
       wait_for_sync \in BOOLEAN,
       batch \in BOOLEAN,
       status \in MutationStatuses :
        /\ batch => status = 200
        /\ mutation' = Called("update_document", data, rev, batch,
                              update_document("k", data, rev, keep_none,
                                  wait_for_sync, batch, status))
                       @@ CallArgs(wait_for_sync, keep_none)
        /\ UNCHANGED <<cvars, kvars, lastBatch, xvars>>

ReplaceDocument ==
    \E data \in DataValues,
       rev \in RevArgs,
       wait_for_sync \in BOOLEAN,
       batch \in BOOLEAN,
       status \in MutationStatuses :
        /\ batch => status = 200
        /\ mutation' = Called("replace_document", data, rev, batch,
                              replace_document("k", data, rev, wait_for_sync,
                                  batch, status))
                       @@ CallArgs(wait_for_sync, FALSE)
        /\ UNCHANGED <<cvars, kvars, lastBatch, xvars>>

DeleteDocument ==
    \E rev \in RevArgs,
       wait_for_sync \in BOOLEAN,
       batch \in BOOLEAN,
       status \in MutationStatuses :
        /\ batch => status = 200
        /\ mutation' = Called("delete_document", NoData, rev, batch,
                              delete_document("k", rev, wait_for_sync, batch,
                                  status))
                       @@ CallArgs(wait_for_sync, FALSE)
        /\ UNCHANGED <<cvars, kvars, lastBatch, xvars>>

UpdateVertex ==
    \E data \in DataValues,
       rev \in RevArgs,
       keep_none \in BOOLEAN,
       wait_for_sync \in BOOLEAN,
       batch \in BOOLEAN,
       status \in MutationStatuses :
        /\ batch => status = 200
        /\ mutation' = Called("update_vertex", data, rev, batch,
                              update_vertex("k", data, rev, keep_none,
                                  wait_for_sync, batch, status))
                       @@ CallArgs(wait_for_sync, keep_none)
        /\ UNCHANGED <<cvars, kvars, lastBatch, xvars>>

ReplaceVertex ==
    \E data \in DataValues,
       rev \in RevArgs,
       wait_for_sync \in BOOLEAN,
       batch \in BOOLEAN,
       status \in MutationStatuses :
        /\ batch => status = 200
        /\ mutation' = Called("replace_vertex", data, rev, batch,
                              replace_vertex("k", data, rev, wait_for_sync,
                                  batch, status))
                       @@ CallArgs(wait_for_sync, FALSE)
        /\ UNCHANGED <<cvars, kvars, lastBatch, xvars>>

DeleteVertex ==
    \E rev \in RevArgs,
       wait_for_sync \in BOOLEAN,
       batch \in BOOLEAN,
       status \in MutationStatuses :
        /\ batch => status = 200
        /\ mutation' = Called("delete_vertex", NoData, rev, batch,
                              delete_vertex("k", rev, wait_for_sync, batch,
                                  status))
                       @@ CallArgs(wait_for_sync, FALSE)
        /\ UNCHANGED <<cvars, kvars, lastBatch, xvars>>

UpdateEdge ==
    \E data \in DataValues,
       rev \in RevArgs,
       keep_none \in BOOLEAN,
       wait_for_sync \in BOOLEAN,
       batch \in BOOLEAN,
       status \in MutationStatuses :
        /\ batch => status = 200
        /\ mutation' = Called("update_edge", data, rev, batch,
                              update_edge("k", data, rev, keep_none,
                                  wait_for_sync, batch, status))
                       @@ CallArgs(wait_for_sync, keep_none)
        /\ UNCHANGED <<cvars, kvars, lastBatch, xvars>>

ReplaceEdge ==
    \E data \in DataValues,
       rev \in RevArgs,
       wait_for_sync \in BOOLEAN,
       batch \in BOOLEAN,
       status \in MutationStatuses :
        /\ batch => status = 200
        /\ mutation' = Called("replace_edge", data, rev, batch,
                              replace_edge("k", data, rev, wait_for_sync,
                                  batch, status))
                       @@ CallArgs(wait_for_sync, FALSE)
        /\ UNCHANGED <<cvars, kvars, lastBatch, xvars>>

DeleteEdge ==
    \E rev \in RevArgs,
       wait_for_sync \in BOOLEAN,
       batch \in BOOLEAN,
       status \in MutationStatuses :
        /\ batch => status = 200
        /\ mutation' = Called("delete_edge", NoData, rev, batch,
                              delete_edge("k", rev, wait_for_sync, batch,
                                  status))
                       @@ CallArgs(wait_for_sync, FALSE)
        /\ UNCHANGED <<cvars, kvars, lastBatch, xvars>>

InitMutation ==
    /\ ApiIdle
    /\ CursorIdle
    /\ CachesIdle

NextMutation ==
    \/ UpdateDocument
    \/ ReplaceDocument
    \/ DeleteDocument
    \/ UpdateVertex
    \/ ReplaceVertex
    \/ DeleteVertex
    \/ UpdateEdge
    \/ ReplaceEdge
    \/ DeleteEdge

\* Any sequence of mutation calls, with any arguments, against any server.
SpecMutation == InitMutation /\ [][NextMutation]_vars

---------------------------------------------------------------------------
(* BatchAPI.execute_batch (arango/api/batch.py): the requests are turned   *)
(* into the parts of one multipart body, element by element, and the body  *)
(* is posted to /batch once the loop has ended.                            *)

\* What an element of the requests list can be, by what the loop does with
\* it:
\*   batchable    (func, args, kwargs), func takes _batch and returns the
\*                request descriptor;
\*   unbatchable  (func, args, kwargs), func has no _batch parameter;
\*   scalar       not iterable, as 7: the unpacking raises TypeError;
\*   pair         of another length than three: it raises ValueError;
\*   nonfunction  three elements the first of which is not a function, as
\*                (1, 2, 3) or "abc": the unpacking succeeds;
\*   invalid_edge (create_edge, args, kwargs) with edge data that has no
\*                "_to": create_edge raises before it looks at _batch.
Shapes == {"batchable", "unbatchable", "scalar", "pair", "nonfunction",
           "invalid_edge"}

\* func, args, kwargs = request
Unpacks(request) == request \notin {"scalar", "pair"}

\* inspect.getargspec(func) raises TypeError for what is not a function.
IsFunction(request) == request # "nonfunction"

\* "_batch" in inspect.getargspec(func)[0]
AcceptsBatch(request) == request # "unbatchable"

\* Status codes the server answers the batch with.
BatchStatuses == {200, 500}

RECURSIVE BatchLoop(_, _, _, _)
\* The for loop of execute_batch from element content_id on, parts being
\* the body built so far, and the request and status check behind it.
BatchLoop(reqs, content_id, parts, status) ==
    IF content_id > Len(reqs)
    THEN [posts |-> <<[method |-> "post", args |-> <<"/batch">>,
                       data |-> parts]>>,
          pos |-> 0,
          outcome |-> IF status \notin HTTP_OK THEN "BatchExecuteError"
                      ELSE "returned"]
    ELSE LET request == reqs[content_id]
             stop(e) == [posts |-> <<>>, pos |-> content_id, outcome |-> e]
         IN  IF ~Unpacks(request) THEN stop("BatchInvalidError")
             ELSE IF ~IsFunction(request) THEN stop("TypeError")
             ELSE IF ~AcceptsBatch(request) THEN stop("BatchInvalidError")
             ELSE IF request = "invalid_edge" THEN stop("EdgeInvalidError")
             ELSE BatchLoop(reqs, content_id + 1,
                            Append(parts, [id |-> content_id,
                                           request |-> request]),
                            status)

\* BatchAPI.execute_batch(requests)
execute_batch(reqs, status) == BatchLoop(reqs, 1, <<>>, status)

\* The lists of at most MaxRequests elements.
RequestLists == UNION {[1..n -> Shapes] : n \in 0..MaxRequests}

ExecuteBatch ==
    /\ \E reqs \in RequestLists, status \in BatchStatuses :
         LET r == execute_batch(reqs, status)
         IN  lastBatch' = [op |-> "execute_batch", requests |-> reqs,
                           posts |-> r.posts, pos |-> r.pos,
                           status |-> IF r.posts = <<>> THEN 0 ELSE status,
                           outcome |-> r.outcome]
    /\ UNCHANGED <<cvars, kvars, mutation, xvars>>

InitBatch ==
    /\ ApiIdle
    /\ CursorIdle
    /\ CachesIdle

NextBatch == ExecuteBatch

\* Any sequence of execute_batch calls.
SpecBatch == InitBatch /\ [][NextBatch]_vars

---------------------------------------------------------------------------
(* The cursor engine's properties.                                         *)

\* The generator ran to its end: it stands behind the while loop.
RanToEnd ==
    \/ pc \in {"cleanup", "done"}
    \/ pc = "raised" /\ raised = "CursorDeleteError"

\* C1 -- Pagination completeness: a traversal that ran to its end (every
\* continuation answered 200) has yielded exactly the concatenation of the
\* batches the server delivered, in that order, the server holds no further
\* page, and N pages took N - 1 continuation requests (none for N = 1).
PaginationComplete ==
    RanToEnd =>
        /\ ~srvMore
        /\ emitted = Flatten(delivered)
        /\ Len(Puts(requests)) = Len(delivered) - 1

\* Three pages, the first two not empty, consumed to the end.
PaginationCompleteWitness ==
    /\ pc = "done"
    /\ Len(delivered) = 3
    /\ Len(delivered[1]) = 2
    /\ Len(delivered[2]) = 1
    /\ Len(emitted) >= 3

\* C2 -- Exactly-one cleanup, as claimed: every traversal that captured a
\* cursor identifier and has ended has issued exactly one deletion request,
\* for that identifier.
ExactlyOneCleanup ==
    (pc \in Finished /\ cursor_id # None) =>
        Deletes(requests) = <<DeleteRequest(cursor_id)>>

\* A response with hasMore false has been seen (a deletion follows only one).
LastPageSeen == response.method = "delete" \/ ~response.hasMore

\* C3 -- Once a response with hasMore false has been seen, the traversal
\* issues no continuation request: the only request that may follow is one
\* deletion of the captured cursor; and a traversal whose initial response
\* has hasMore false issues no request at all.
NoFetchAfterLastPage ==
    [][ /\ LastPageSeen =>
             \/ requests' = requests
             \/ /\ response.method # "delete"
                /\ cursor_id # None
                /\ Deletes(requests) = <<>>
                /\ requests' = Append(requests, DeleteRequest(cursor_id))
        /\ (response.method = "post" /\ ~response.hasMore) => requests' = <<>>
      ]_vars

\* A last page arrived by a continuation request, and the deletion followed.
NoFetchAfterLastPageWitness ==
    /\ pc = "done"
    /\ Len(Puts(requests)) = 2
    /\ Len(Deletes(requests)) = 1
    /\ requests[Len(requests)].method = "delete"

CleanupErrorDeferred ==
    response.method = "delete" =>
        /\ ~srvMore
        /\ emitted = Flatten(delivered)
        /\ IF response.status_code \in {404, 202}
           THEN pc = "done" /\ raised = None
           ELSE pc = "raised" /\ raised = "CursorDeleteError"

\* A deletion answered 200 after three records of two pages.
CleanupErrorDeferredWitness ==
    /\ response.method = "delete"
    /\ response.status_code = 200
    /\ raised = "CursorDeleteError"
    /\ Len(delivered) = 2
    /\ Len(emitted) = 3

\* C6 -- A traversal the consumer stopped early has issued no deletion
\* request, and issues none later.
EarlyStopNeverDeletes ==
    [][ /\ pc' = "closed" => Deletes(requests') = <<>>
        /\ pc = "closed" => (pc' = pc /\ requests' = requests)
      ]_vars

\* The consumer stopped after the first record while the server holds a
\* cursor with further pages.
EarlyStopNeverDeletesWitness ==
    /\ pc = "closed"
    /\ Len(emitted) = 1
    /\ srvMore
    /\ response.id \in CursorIds

\* C7 -- Single pass: a finished generator yields no record and issues no
\* request when it is consumed again.
SinglePass ==
    [][ /\ pc \in Finished => pc' = pc
        /\ pc \in Finished => emitted' = emitted
        /\ pc \in Finished => requests' = requests
      ]_vars

\* A traversal consumed to its end, and consumed again.
SinglePassWitness ==
    /\ pc = "done"
    /\ extraNext >= 1
    /\ Len(emitted) >= 2
    /\ Len(requests) >= 2

\* C8 -- cursor_id is assigned at most once, from a response that reports
\* hasMore true and before any request, is an identifier from then on, and
\* every continuation and deletion request is addressed to it.
CursorIdAssignedOnce ==
    [][ /\ cursor_id # None => cursor_id' = cursor_id
        /\ (cursor_id = None /\ cursor_id' # None) =>
              /\ response.hasMore
              /\ cursor_id' = response.id
              /\ cursor_id' \in CursorIds
              /\ requests = <<>>
        /\ requests' # <<>> => cursor_id' \in CursorIds
        /\ \A i \in 1..Len(requests') :
              requests'[i].args = << <<"/cursor", cursor_id'>> >>
      ]_vars

\* A continuation response that names another cursor and announces more
\* pages: the next request is still to come.
CursorIdAssignedOnceWitness ==
    /\ response.method = "put"
    /\ response.status_code = 200
    /\ response.hasMore
    /\ response.id \in CursorIds \ {cursor_id}
    /\ cursor_id \in CursorIds
    /\ pc = "while"

---------------------------------------------------------------------------
(* The identity caches' properties.                                        *)

\* C9 -- Cache hit: a resolve of a name that is a key of the handle's cache
\* returns the very object the cache holds, makes no network call and leaves
\* every cache as it was, whatever names the server lists.
CacheHitNoNetwork ==
    [][ (/\ last' # last
         /\ last'.op = "resolve"
         /\ caches[last'.cache][last'.name] # 0)
        => /\ last'.outcome = "proxy"
           /\ last'.result = caches[last'.cache][last'.name]
           /\ last'.calls = <<>>
           /\ last'.refreshes = 0
           /\ caches' = caches
      ]_vars

\* A cached name is resolved after the server dropped it.
CacheHitNoNetworkWitness ==
    /\ last.op = "resolve"
    /\ last.hit
    /\ last.outcome = "proxy"
    /\ last.name \notin server[last.cache[2]]
    /\ last.result = caches[last.cache][last.name]

\* What a resolve of an uncached name owes the caller once the names were
\* listed: one refresh, one re-check, and the proxy or the kind's not-found
\* error according to the refreshed cache.
MissOutcome ==
    /\ last.refreshes = 1
    /\ last.listed =>
         /\ last.rechecks = 1
         /\ IF caches[last.cache][last.name] # 0
            THEN /\ last.outcome = "proxy"
                 /\ last.result = caches[last.cache][last.name]
            ELSE last.outcome = NotFoundError(last.cache[2])

\* C10 -- Cache miss, as claimed: a resolve of a name that is not cached
\* performs exactly one refresh followed by one re-check, and fails with the
\* not-found error of its kind exactly if the name is still absent.
CacheMissOneRefresh ==
    (last.op = "resolve" /\ ~last.hit) => MissOutcome

\* The same for database() and collection() alone.
CacheMissOneRefreshDbCol ==
    (last.op = "resolve" /\ ~last.hit /\ last.cache[2] # "graph")
        => MissOutcome

\* The cache c has converged on the name set its last listing returned: a
\* proxy is cached for every name of the set and for no other, so that a
\* name of the set resolves from the cache, without a network call, and a
\* resolve that listed the names returned the proxy of a listed name and
\* raised the kind's not-found error for any other.
CacheConverged(c) ==
    /\ Keys(caches[c]) = authoritative[c]
    /\ (last.op = "resolve" /\ last.cache = c) =>
         /\ last.hit => (last.calls = <<>> /\ last.name \in authoritative[c])
         /\ (last.hit \/ last.listed) =>
              IF last.name \in authoritative[c]
              THEN /\ last.outcome = "proxy"
                   /\ last.result = caches[c][last.name]
              ELSE last.outcome = NotFoundError(c[2])

\* C11 -- Cache convergence, as claimed: after a refresh, resolve returns a
\* proxy for every name of the last-fetched authoritative set, from the
\* cache, and fails with the not-found error for every name absent from it.
CacheConvergence ==
    \A c \in DOMAIN caches : CacheConverged(c)

\* The same for the database cache and the collection cache alone.
CacheConvergenceDbCol ==
    \A c \in DOMAIN caches : c[2] # "graph" => CacheConverged(c)

\* C12 -- Cache churn idempotence: a cache changes only by a refresh of it,
\* a refresh changes the entries of no name outside the difference between
\* the cache keys and the fetched set (a name cached and listed keeps the
\* identical proxy object), it removes only cached names that are not
\* listed and adds only listed names that are not cached, and a refresh that
\* fetches the set the refresh before it fetched changes nothing at all.
ChurnIdempotent ==
    [][ \A c \in DOMAIN caches :
          /\ caches'[c] # caches[c] =>
               /\ last'.op # "none"
               /\ last'.cache = c
               /\ last'.listed
          /\ (last'.op # "none" /\ last'.cache = c /\ last'.listed) =>
               /\ \A n \in Keys(caches[c]) \cap last'.fetched :
                     caches'[c][n] = caches[c][n]
               /\ \A n \in Names \ (Keys(caches[c]) \cup last'.fetched) :
                     caches'[c][n] = 0
               /\ \A n \in Keys(caches[c]) \ last'.fetched :
                     caches'[c][n] = 0
               /\ \A n \in last'.fetched \ Keys(caches[c]) :
                     caches'[c][n] \notin ObjectsIn(caches)
               /\ last'.fetched = authoritative[c] =>
                     /\ Keys(caches'[c]) = Keys(caches[c])
                     /\ caches'[c] = caches[c]
      ]_vars

\* A second refresh in a row: a resolve of a name that is not cached listed
\* exactly the names the cache already held, and the cache holds them still.
ChurnIdempotentWitness ==
    /\ last.op = "resolve"
    /\ ~last.hit
    /\ last.listed
    /\ last.cached # {}
    /\ last.fetched = last.cached
    /\ authoritative[last.cache] = last.cached
    /\ Keys(caches[last.cache]) = last.cached
    /\ last.outcome = NotFoundError(last.cache[2])

\* C13 -- In every reachable state the keys of every cache are names of the
\* set its most recent listing returned (no key before the first listing),
\* every cached proxy was built with the name it is cached under, and a
\* resolve that returned a proxy returned the one cached for a name of that
\* set.
KeysWithinAuthoritative ==
    /\ \A c \in DOMAIN caches :
         /\ Keys(caches[c]) \subseteq authoritative[c]
         /\ \A n \in Keys(caches[c]) :
               /\ caches[c][n] \in DOMAIN proxies
               /\ proxies[caches[c][n]].name = n
    /\ (last.op = "resolve" /\ last.outcome = "proxy") =>
         /\ last.name \in authoritative[last.cache]
         /\ last.result # 0
         /\ last.result = caches[last.cache][last.name]

\* Stale between refreshes: the cache holds both names, from a listing that
\* reported both, after the server dropped them, and resolves one of them.
KeysWithinAuthoritativeWitness ==
    /\ last.op = "resolve"
    /\ last.outcome = "proxy"
    /\ Keys(caches[last.cache]) = Names
    /\ authoritative[last.cache] = Names
    /\ server[last.cache[2]] = {}

\* C14 -- One call per refresh, as claimed: a resolve that refreshed its
\* cache once made exactly one network call, whatever the kind.
OneCallPerRefresh ==
    (last.op = "resolve" /\ last.refreshes = 1) => Len(last.calls) = 1

\* The same for the collection cache and the graph cache alone.
OneCallPerRefreshColGraph ==
    (last.op = "resolve" /\ last.refreshes = 1 /\ last.cache[2] # "db")
        => Len(last.calls) = 1

CreateDatabaseReturnsProxy ==
    /\ last.op = "create_database"
    /\ last.outcome = "proxy"
    /\ last.name \notin last.cached
    /\ last.cached # {}

---------------------------------------------------------------------------
(* The mutations' properties.                                              *)

\* The revision error of the resource a method works on.
RevisionErrorOf(func) ==
    CASE func \in {"update_document", "replace_document", "delete_document"}
            -> "DocumentRevisionError"
      [] func \in {"update_vertex", "replace_vertex", "delete_vertex"}
            -> "VertexRevisionError"
      [] func \in {"update_edge", "replace_edge", "delete_edge"}
            -> "EdgeRevisionError"

RequestOf(m) == IF m.sent # <<>> THEN m.sent[1] ELSE m.result

\* The revision the request carries is the rev argument if there is one and
\* data["_rev"] only if rev is None.
RevArgumentPreferred ==
    LET params == RequestOf(mutation).params
    IN  IF mutation.rev # None
        THEN "rev" \in DOMAIN params /\ params["rev"] = mutation.rev
        ELSE "_rev" \in DOMAIN mutation.data
                => ("rev" \in DOMAIN params
                    /\ params["rev"] = mutation.data["_rev"])

UpdatesAndReplaces ==
    {"update_document", "replace_document", "update_vertex",
     "replace_vertex", "update_edge", "replace_edge"}

\* C17 -- rev is preferred over data["_rev"], as claimed: for every update
\* and replace of a document, a vertex or an edge.
RevPreferredOverDataRev ==
    mutation.func \in UpdatesAndReplaces => RevArgumentPreferred

\* The same for every update and replace but replace_vertex.
RevPreferredButReplaceVertex ==
    mutation.func \in UpdatesAndReplaces \ {"replace_vertex"}
        => RevArgumentPreferred

---------------------------------------------------------------------------
(* The batch's properties.                                                  *)

\* Elements that are not a (func, args, kwargs) triple.
NotATriple == {"scalar", "pair", "nonfunction"}

\* The element is bad: no triple, or a method without the _batch flag.
BadElement(request) == request \in NotATriple \cup {"unbatchable"}

\* C18 -- Malformed batch, as claimed: if any element of the list is not a
\* (func, args, kwargs) triple or names a method that does not accept the
\* _batch flag, execute_batch raises BatchInvalidError and has issued no
\* network request, at whatever position the element stands.
MalformedBatchRejected ==
    (/\ lastBatch.op = "execute_batch"
     /\ \E i \in DOMAIN lastBatch.requests : BadElement(lastBatch.requests[i]))
        => /\ lastBatch.outcome = "BatchInvalidError"
           /\ lastBatch.posts = <<>>

\* What holds of it: a list with a bad element makes the call raise at or
\* before the first such element and send nothing; the error is
\* BatchInvalidError if the call got as far as that element and the element
\* fails the unpacking or lacks the _batch parameter.
MalformedBatchSendsNothing ==
    (/\ lastBatch.op = "execute_batch"
     /\ \E i \in DOMAIN lastBatch.requests : BadElement(lastBatch.requests[i]))
        => LET first == CHOOSE i \in DOMAIN lastBatch.requests :
                           /\ BadElement(lastBatch.requests[i])
                           /\ \A j \in 1..(i - 1) :
                                 ~BadElement(lastBatch.requests[j])
           IN  /\ lastBatch.posts = <<>>
               /\ lastBatch.pos \in 1..first
               /\ (lastBatch.pos = first /\ lastBatch.requests[first] # "nonfunction")
                     => lastBatch.outcome = "BatchInvalidError"
               /\ lastBatch.outcome = "BatchInvalidError" => lastBatch.pos = first

---------------------------------------------------------------------------
(* The core's properties.                                                  *)

\* Every request of the calls is made once: no two have method and
\* arguments in common.
EachOnce(calls) ==
    \A i, j \in DOMAIN calls :
        (calls[i].method = calls[j].method /\ calls[i].args = calls[j].args)
            => i = j

\* C19 -- No retries. A traversal that raised has issued its failed request
\* exactly once, as the last one (one continuation request per page
\* delivered plus the failed one, or the one deletion), raised in the very
\* step that sent it, and issues no request afterwards. A resolve, create or
\* delete call whose listing or mutation request failed its status check
\* issued that request once, as its last, issued no request twice, and
\* raised the error of that request.
NoRetries ==
    [][ /\ pc = "raised" => (pc' = pc /\ requests' = requests)
        /\ (pc # "raised" /\ pc' = "raised") =>
              /\ Len(requests') = Len(requests) + 1
              /\ raised' = "AQLQueryExecuteError" =>
                    /\ requests'[Len(requests')] = PutRequest(cursor_id')
                    /\ response'.status_code # 200
                    /\ Len(Puts(requests')) = Len(delivered')
              /\ raised' = "CursorDeleteError" =>
                    /\ requests'[Len(requests')] = DeleteRequest(cursor_id')
                    /\ response'.status_code \notin {404, 202}
                    /\ Len(Deletes(requests')) = 1
        /\ (last' # last /\ last'.op # "none") =>
              LET calls == last'.calls
                  kind  == last'.cache[2]
              IN  /\ EachOnce(calls)
                  /\ Len(calls) <= 1 + last'.refreshes * Len(ListPaths(kind))
                  /\ \A i \in 1..(Len(calls) - 1) :
                        IF calls[i].method = "get"
                        THEN ListOk(kind, calls[i].status)
                        ELSE calls[i].status \in HTTP_OK
                             \/ calls[i].status = 404
                  /\ last'.outcome = ListError(kind) =>
                        /\ calls # <<>>
                        /\ calls[Len(calls)].method = "get"
                        /\ ~ListOk(kind, calls[Len(calls)].status)
                  /\ last'.outcome \in {"DatabaseCreateError",
                                        "DatabaseDeleteError"} =>
                        /\ Len(calls) = 1
                        /\ calls[1].status \notin HTTP_OK
      ]_vars

\* The second continuation request failed after two pages, and the consumer
\* has asked the dead generator for more.
NoRetriesWitness ==
    /\ pc = "raised"
    /\ raised = "AQLQueryExecuteError"
    /\ Len(Puts(requests)) = 2
    /\ Len(delivered) = 2
    /\ extraNext >= 1

\* The second request of a database listing failed.
NoRetriesListingFailed ==
    /\ DOMAIN caches # {}
    /\ last.op = "resolve"
    /\ last.outcome = "DatabaseListError"
    /\ Len(last.calls) = 2

---------------------------------------------------------------------------
(* The continuation request's payload.                                     *)

ContinuationSendsNull ==
    \A i \in DOMAIN requests :
        requests[i].method = "put" =>
            /\ DataArg(requests[i]) = None
            /\ api_put(requests[i]).data = "null"

---------------------------------------------------------------------------
(* ArangoConnection: construction and URLs.                                *)

\* Name of the default ArangoDB database.
DEFAULT_DATABASE_NAME == "_system"

\* Arguments a connection is constructed with; a port is given by the text
\* str.format renders it as.
Protocols == {"http", "https"}
Hosts == {"localhost", "db1"}
Ports == {"8529", "8530"}
Usernames == {"root", "alice"}

\* Status codes the server answers the HEAD request with.
HandshakeStatuses == {200, 204, 206, 301, 401, 404, 500, 503}

\* ArangoConnection.url_prefix: "{protocol}://{host}:{port}/_db/{db}/_api",
\* as the sequence of its pieces.
url_prefix(self, database_name) ==
    <<self.protocol, "://", self.host, ":", self.port, "/_db/",
      database_name, "/_api">>

\* ArangoConnection.api_head: the request handed to the client.
api_head(self, database_name, api_path) ==
    [method |-> "head",
     url    |-> url_prefix(self, database_name) \o <<api_path>>,
     auth   |-> <<self.username, self.password>>]

\* A check that lets every answer pass.
HandshakeOkAlways(status) == TRUE

\* if res.status_code not in HTTP_OK: raise ArangoConnectionError(res)
HandshakeOk(status) == status \in HTTP_OK

\* ArangoConnection.__init__: the attributes are set, one HEAD request for
\* /version goes to the default database, and its status decides whether the
\* constructor returns or raises.
ArangoConnection(protocol, host, port, username, status) ==
    LET self == [protocol |-> protocol, host |-> host, port |-> port,
                 username |-> username, password |-> ""]
    IN  [op      |-> "connect",
         self    |-> self,
         sent    |-> <<api_head(self, DEFAULT_DATABASE_NAME, "/version")>>,
         status  |-> status,
         outcome |-> IF HandshakeOk(status) THEN "connected"
                     ELSE "ArangoConnectionError",
         object  |-> HandshakeOk(status)]

\* A caller constructs a connection.
Connect ==
    /\ \E protocol \in Protocols : \E host \in Hosts : \E port \in Ports :
       \E username \in Usernames : \E status \in HandshakeStatuses :
          connection' = ArangoConnection(protocol, host, port, username,
                                         status)
    /\ UNCHANGED <<cvars, kvars, avars, traversals, stored, threads>>

InitConnection ==
    /\ ConnectionIdle
    /\ MutationsIdle
    /\ TraversalsIdle
    /\ ThreadsIdle
    /\ CursorIdle
    /\ CachesIdle

NextConnection == Connect

SpecConnection == InitConnection /\ [][NextConnection]_vars

---------------------------------------------------------------------------
(* The handshake.                                                          *)

\* C21 -- Constructing an ArangoConnection issues exactly one HEAD request,
\* for /version on the _system database, and raises ArangoConnectionError
\* when, and only when, the status of the response is not in HTTP_OK; no
\* connection object is obtained in that case.
ConnectionHandshake ==
    connection.op = "connect" =>
        /\ Len(connection.sent) = 1
        /\ connection.sent[1].method = "head"
        /\ connection.sent[1].url =
               <<connection.self.protocol, "://", connection.self.host, ":",
                 connection.self.port, "/_db/", "_system", "/_api",
                 "/version">>
        /\ (connection.outcome = "ArangoConnectionError"
               <=> connection.status \notin HTTP_OK)
        /\ (connection.outcome = "ArangoConnectionError"
               => ~connection.object)
        /\ (connection.outcome # "ArangoConnectionError"
               => connection.object)

\* A handshake the server answered with 401: the constructor raised.
ConnectionHandshakeWitness ==
    /\ connection.op = "connect"
    /\ connection.status = 401
    /\ connection.outcome = "ArangoConnectionError"
    /\ ~connection.object

---------------------------------------------------------------------------
(* Several handles side by side.                                           *)

\* The caches a run with several handles follows: the database caches of
\* two Arango objects, the collection caches of two Database objects, or
\* the collection cache and the graph cache of one Database object.
HandleSets ==
    {{<<"arango", "db">>, <<"arango2", "db">>},
     {<<"d1", "col">>, <<"d2", "col">>},
     {<<"d1", "col">>, <<"d1", "graph">>}}

\* Arango.__init__ and Database.__init__ of every handle: each cache starts
\* as an empty dict of its own.
InitHandles ==
    /\ \E cs \in HandleSets :
         /\ server \in [{c[2] : c \in cs} -> SUBSET Names]
         /\ caches = [c \in cs |-> EmptyCache]
         /\ authoritative = [c \in cs |-> {}]
    /\ proxies = <<>>
    /\ last = NoCall
    /\ CursorIdle
    /\ ApiIdle

NextHandles ==
    \/ ResolveCall
    \/ ServerChange

SpecHandles == InitHandles /\ [][NextHandles]_vars

---------------------------------------------------------------------------
(* Cache ownership.                                                        *)

\* C22 -- Each handle owns its caches exclusively: a resolve or a refresh
\* on one handle never adds, removes or replaces an entry in a cache of
\* another handle, and a refresh of one cache of a handle leaves the
\* handle's other cache unchanged.
CacheOwnership ==
    [][last'.op # "none" =>
          \A c \in DOMAIN caches :
              c # last'.cache =>
                  /\ caches'[c] = caches[c]
                  /\ authoritative'[c] = authoritative[c]]_vars

\* Two Database handles of one database whose collection caches differ: the
\* last call refreshed the cache of d1 and cached "foo" there, while the
\* cache of d2 holds "bar" alone, a name the server has dropped since.
CacheOwnershipWitness ==
    /\ DOMAIN caches = {<<"d1", "col">>, <<"d2", "col">>}
    /\ last.op = "resolve"
    /\ last.cache = <<"d1", "col">>
    /\ last.listed
    /\ last.outcome = "proxy"
    /\ Keys(caches[<<"d1", "col">>]) = {"foo"}
    /\ Keys(caches[<<"d2", "col">>]) = {"bar"}

\* The graph cache of a handle was refreshed while its collection cache
\* held entries.
CacheOwnershipOtherKind ==
    /\ DOMAIN caches = {<<"d1", "col">>, <<"d1", "graph">>}
    /\ last.op = "resolve"
    /\ last.cache = <<"d1", "graph">>
    /\ last.listed
    /\ Keys(caches[<<"d1", "col">>]) # {}

---------------------------------------------------------------------------
(* The name a returned proxy carries.                                      *)

\* The last call was a resolve of a name the server lists: a cache hit, or a
\* miss whose listing returned the name.
ResolvedListedName ==
    /\ last.op = "resolve"
    /\ \/ last.hit
       \/ last.listed /\ last.name \in last.fetched

\* The last call returned a proxy of its kind's class that carries the
\* requested name.
ReturnedProxyOfName ==
    /\ last.outcome = "proxy"
    /\ last.result \in DOMAIN proxies
    /\ proxies[last.result].class = ProxyClass(last.cache[2])
    /\ proxies[last.result].name = last.name

\* C23 -- Every resolve of a name the server lists returns a proxy that
\* carries the requested name (db_name, col_name, graph_name); in
\* particular a refresh that finds a newly listed graph name constructs and
\* caches a Graph proxy for it.
ProxyCarriesName == ResolvedListedName => ReturnedProxyOfName

\* What holds of it: the proxies of databases and collections carry the
\* requested name, and a graph refresh that finds a new name raises
\* TypeError and caches nothing.
ProxyCarriesNameDbCol ==
    ResolvedListedName =>
        IF last.cache[2] = "graph"
        THEN /\ last.outcome = "TypeError"
             /\ Keys(caches[last.cache]) = {}
        ELSE ReturnedProxyOfName

---------------------------------------------------------------------------
(* The cursor engine's calls, bound to ArangoConnection.                   *)

\* A connection constructed with the defaults of ArangoConnection.__init__.
DefaultConnection ==
    [protocol |-> "http", host |-> "localhost", port |-> "8529",
     username |-> "root", password |-> ""]

\* The parameters of api_put and api_delete that have no default, after
\* self.
ApiRequired == <<"database_name", "api_path">>

\* ArangoConnection.api_put and api_delete on the positional arguments of a
\* call: Python raises TypeError when a parameter without default is left
\* unfilled; otherwise the URL is url_prefix(database_name) + api_path.
Routed(self, request) ==
    IF Len(request.args) < Len(ApiRequired)
    THEN [error |-> "TypeError", url |-> <<>>]
    ELSE [error |-> None,
          url   |-> url_prefix(self, request.args[1]) \o <<request.args[2]>>]

\* Names of databases a query may run in.
DatabaseNames == {"_system", "d1"}

\* C24 -- The continuation and deletion requests of a traversal are PUT and
\* DELETE requests to /cursor/{cursor_id} under the URL prefix
\* {protocol}://{host}:{port}/_db/{database}/_api of the database the query
\* ran in: the calls supply both the database name and the API path.
CursorRequestsAddressed ==
    \A i \in DOMAIN requests :
        /\ requests[i].method \in {"put", "delete"}
        /\ Routed(DefaultConnection, requests[i]).error = None
        /\ \E db \in DatabaseNames : \E cid \in CursorIds :
              Routed(DefaultConnection, requests[i]).url =
                  <<"http", "://", "localhost", ":", "8529", "/_db/", db,
                    "/_api", <<"/cursor", cid>> >>

\* What holds of it: every call passes the path /cursor/{cursor_id} as its
\* one positional argument, which fills database_name and leaves api_path
\* unfilled.
CursorRequestsLackDatabase ==
    \A i \in DOMAIN requests :
        /\ requests[i].method \in {"put", "delete"}
        /\ Len(requests[i].args) = 1
        /\ \E cid \in CursorIds : requests[i].args[1] = <<"/cursor", cid>>
        /\ Routed(DefaultConnection, requests[i]).error = "TypeError"

---------------------------------------------------------------------------
(* A failed continuation request.                                          *)

\* C27 -- When a continuation request fails (status other than 200) after
\* a cursor id was captured, the traversal ends with the error and issues
\* no deletion request: the failed PUT for the captured cursor is the last
\* request of the traversal.
FailedContinuationLeavesCursor ==
    raised = "AQLQueryExecuteError" =>
        /\ pc = "raised"
        /\ cursor_id # None
        /\ response.status_code # 200
        /\ Deletes(requests) = <<>>
        /\ requests # <<>>
        /\ requests[Len(requests)] = PutRequest(cursor_id)

\* The second continuation request of a traversal failed, and the consumer
\* asked the ended generator for more.
FailedContinuationLeavesCursorWitness ==
    /\ raised = "AQLQueryExecuteError"
    /\ cursor_id # None
    /\ Len(Puts(requests)) = 2
    /\ extraNext = MaxExtraNext

---------------------------------------------------------------------------
(* Names that are not of type str.                                         *)

\* Values a caller may pass for a name that are no str: an int, and bytes.
NonStrNames == {"int:7", "bytes:foo"}

\* A type check in collection() only.
TypeCheckedCollectionOnly(kind) == kind = "col"

\* if not isinstance(name, str): raise TypeError("Expecting a str.")
\* stands at the head of collection() and of graph(); database() has none.
TypeChecked(kind) == kind \in {"col", "graph"}

\* database(name), collection(name), graph(name) with a name that is no
\* str. Behind a type check the method raises at once. Without one the
\* name, equal to no key and no listed name, misses the cache, the cache is
\* refreshed and the name is not found.
ResolveNonStr(c, name) ==
    \E sts \in [1..Len(ListPaths(c[2])) -> ListStatuses] :
        LET call == [op |-> "resolve", cache |-> c, name |-> name,
                     cached |-> Keys(caches[c]), hit |-> FALSE, result |-> 0]
            r    == Refresh(caches[c], c[2], sts, server[c[2]],
                            ObjectsIn(caches))
            cs   == Stored(caches, c, r.cache)
        IN  IF TypeChecked(c[2])
            THEN /\ last' = call @@
                       [refreshes |-> 0, listed |-> FALSE, fetched |-> {},
                        rechecks |-> 0, calls |-> <<>>,
                        outcome |-> "TypeError"]
                 /\ UNCHANGED <<server, caches, proxies, authoritative>>
            ELSE /\ caches' = cs
                 /\ proxies' = Constructed(proxies, cs, c)
                 /\ authoritative' = IF r.listed
                                     THEN [authoritative EXCEPT ![c] = r.fetched]
                                     ELSE authoritative
                 /\ last' = call @@
                       [refreshes |-> 1, listed |-> r.listed,
                        fetched |-> r.fetched,
                        rechecks |-> IF r.error = None THEN 1 ELSE 0,
                        calls |-> r.calls,
                        outcome |-> IF r.error # None THEN r.error
                                    ELSE NotFoundError(c[2])]
                 /\ UNCHANGED server

\* A call of database(), collection() or graph() with a name that is no
\* str.
ResolveNonStrCall ==
    /\ \E c \in DOMAIN caches, name \in NonStrNames : ResolveNonStr(c, name)
    /\ UNCHANGED <<cvars, avars, xvars>>

NextTyped ==
    \/ ResolveCall
    \/ ResolveNonStrCall
    \/ CreateDatabaseCall
    \/ DeleteDatabaseCall
    \/ ServerChange

\* The caches under calls with names of any type.
SpecTyped == InitCache /\ [][NextTyped]_vars

\* C26 -- collection(name) and graph(name) called with a name that is no
\* str raise TypeError before any cache lookup or network call, and leave
\* the caches unchanged.
NonStrRejected ==
    [][(/\ last'.op = "resolve"
        /\ last'.name \in NonStrNames
        /\ last'.cache[2] \in {"col", "graph"})
       => /\ last'.outcome = "TypeError"
          /\ last'.calls = <<>>
          /\ ~last'.hit
          /\ last'.refreshes = 0
          /\ last'.rechecks = 0
          /\ caches' = caches
          /\ proxies' = proxies
          /\ authoritative' = authoritative]_vars

\* collection() was called with a name that is no str on a handle whose
\* collection cache holds an entry and lags behind the server.
NonStrRejectedWitness ==
    /\ last.op = "resolve"
    /\ last.name \in NonStrNames
    /\ last.cache[2] = "col"
    /\ last.outcome = "TypeError"
    /\ Keys(caches[last.cache]) # {}
    /\ Keys(caches[last.cache]) # server["col"]

\* graph() was called with a name that is no str while the server lists a
\* graph.
NonStrRejectedGraph ==
    /\ last.op = "resolve"
    /\ last.name \in NonStrNames
    /\ last.cache[2] = "graph"
    /\ last.outcome = "TypeError"
    /\ last.calls = <<>>
    /\ server["graph"] # {}

---------------------------------------------------------------------------
(* Database.create_graph and Database.delete_graph.                        *)

\* The graph cache of the Database object.
GraphCache == <<"d1", "graph">>

\* The server's answers to POST /gharial: created (201, or 202 without
\* waiting for the sync), or a conflict with a graph of the name, or a
\* failure.
CreateGraphAnswers(name) ==
    IF name \in server["graph"] THEN {409, 500} ELSE {201, 202, 500}

\* The server's answers to DELETE /gharial/<name>: dropped (200 or 202), or
\* not found, or a failure.
DeleteGraphAnswers(name) ==
    IF name \in server["graph"] THEN {200, 202, 500} ELSE {404, 500}

\* Database.create_graph(name): POST /gharial, then a refresh of the graph
\* cache, then return self.graph(name).
create_graph(name) ==
    \E st \in CreateGraphAnswers(name) :
        LET post == [method |-> "post", args |-> <<"/gharial">>,
                     data |-> [name |-> name], status |-> st]
            call == [op |-> "create_graph", cache |-> GraphCache,
                     name |-> name, cached |-> Keys(caches[GraphCache]),
                     status |-> st]
            real == IF st \in {201, 202} THEN server["graph"] \cup {name}
                    ELSE server["graph"]
        IN  IF st # 201
            THEN /\ last' = call @@ [calls |-> <<post>>, refreshes |-> 0,
                                     listed |-> FALSE, fetched |-> {},
                                     outcome |-> "GraphCreateError",
                                     result |-> 0]
                 /\ server' = [server EXCEPT !["graph"] = real]
                 /\ UNCHANGED <<caches, proxies, authoritative>>
            ELSE \E sts1 \in [1..Len(ListPaths("graph")) -> ListStatuses] :
                 LET r   == Refresh(caches[GraphCache], "graph", sts1, real,
                                    ObjectsIn(caches))
                     cs1 == Stored(caches, GraphCache, r.cache)
                 IN
                 \E sts2 \in IF r.error = None /\ ~CacheHit(r.cache, name)
                              THEN [1..Len(ListPaths("graph")) -> ListStatuses]
                              ELSE {sts1} :
                   LET v   == Resolved(r.cache, "graph", name, sts2, real,
                                       ObjectsIn(cs1))
                       cs2 == Stored(caches, GraphCache, v.after)
                   IN  /\ server' = [server EXCEPT !["graph"] = real]
                       /\ IF r.error # None
                          THEN /\ caches' = cs1
                               /\ proxies' =
                                    Constructed(proxies, cs1, GraphCache)
                               /\ authoritative' =
                                    IF r.listed
                                    THEN [authoritative EXCEPT
                                             ![GraphCache] = r.fetched]
                                    ELSE authoritative
                               /\ last' = call @@
                                    [calls |-> <<post>> \o r.calls,
                                     refreshes |-> 1, listed |-> r.listed,
                                     fetched |-> r.fetched,
                                     outcome |-> r.error, result |-> 0]
                          ELSE /\ caches' = cs2
                               /\ proxies' =
                                    Constructed(proxies, cs2, GraphCache)
                               /\ authoritative' =
                                    [authoritative EXCEPT ![GraphCache] =
                                        IF v.listed THEN v.fetched
                                        ELSE r.fetched]
                               /\ last' = call @@
                                    [calls |-> <<post>> \o r.calls \o v.calls,
                                     refreshes |-> 1 + v.refreshes,
                                     listed |-> TRUE,
                                     fetched |-> IF v.listed THEN v.fetched
                                                 ELSE r.fetched,
                                     outcome |-> v.outcome,
                                     result |-> v.result]

\* Database.delete_graph(name): DELETE /gharial/<name>, then a refresh of
\* the graph cache.
delete_graph(name) ==
    \E st \in DeleteGraphAnswers(name) :
        LET del  == [method |-> "delete", args |-> << <<"/gharial", name>> >>,
                     status |-> st]
            call == [op |-> "delete_graph", cache |-> GraphCache,
                     name |-> name, cached |-> Keys(caches[GraphCache]),
                     status |-> st]
            real == IF st \in {200, 202} THEN server["graph"] \ {name}
                    ELSE server["graph"]
        IN  IF st # 200
            THEN /\ last' = call @@ [calls |-> <<del>>, refreshes |-> 0,
                                     listed |-> FALSE, fetched |-> {},
                                     outcome |-> "GraphDeleteError",
                                     result |-> 0]
                 /\ server' = [server EXCEPT !["graph"] = real]
                 /\ UNCHANGED <<caches, proxies, authoritative>>
            ELSE \E sts \in [1..Len(ListPaths("graph")) -> ListStatuses] :
                   LET r  == Refresh(caches[GraphCache], "graph", sts, real,
                                     ObjectsIn(caches))
                       cs == Stored(caches, GraphCache, r.cache)
                   IN  /\ server' = [server EXCEPT !["graph"] = real]
                       /\ caches' = cs
                       /\ proxies' = Constructed(proxies, cs, GraphCache)
                       /\ authoritative' =
                            IF r.listed
                            THEN [authoritative EXCEPT
                                     ![GraphCache] = r.fetched]
                            ELSE authoritative
                       /\ last' = call @@
                            [calls |-> <<del>> \o r.calls, refreshes |-> 1,
                             listed |-> r.listed, fetched |-> r.fetched,
                             outcome |-> IF r.error # None THEN r.error
                                         ELSE "returned",
                             result |-> 0]

\* A call of create_graph() by the program.
CreateGraphCall ==
    /\ GraphCache \in DOMAIN caches
    /\ \E name \in Names : create_graph(name)
    /\ UNCHANGED <<cvars, avars, xvars>>

\* A call of delete_graph() by the program.
DeleteGraphCall ==
    /\ GraphCache \in DOMAIN caches
    /\ \E name \in Names : delete_graph(name)
    /\ UNCHANGED <<cvars, avars, xvars>>

NextManaged ==
    \/ ResolveCall
    \/ CreateDatabaseCall
    \/ DeleteDatabaseCall
    \/ CreateGraphCall
    \/ DeleteGraphCall
    \/ ServerChange

\* The caches under resolves and under the creation and deletion of
\* databases and graphs.
SpecManaged == InitCache /\ [][NextManaged]_vars

---------------------------------------------------------------------------
(* A failed request leaves the cache alone.                                *)

\* The errors of a failed listing, and of a failed creation or deletion
\* request.
RequestErrors ==
    {ListError(kind) : kind \in Kinds} \cup
    {"DatabaseCreateError", "DatabaseDeleteError", "GraphCreateError",
     "GraphDeleteError"}

\* C28 -- If the listing request of a refresh fails, the cache keeps
\* exactly its keys and its proxy objects, for databases, collections and
\* graphs alike; the same holds for create_graph, delete_graph,
\* create_database and delete_database when their own request fails before
\* the refresh.
FailedRequestKeepsCache ==
    [][(last'.op # "none" /\ last'.outcome \in RequestErrors)
       => /\ caches' = caches
          /\ proxies' = proxies
          /\ authoritative' = authoritative]_vars

\* A collection listing failed on a handle whose cache holds a proxy for a
\* name the server has dropped.
FailedRequestKeepsCacheWitness ==
    /\ last.op = "resolve"
    /\ last.outcome = "CollectionListError"
    /\ Keys(caches[last.cache]) # {}
    /\ ~(Keys(caches[last.cache]) \subseteq server["col"])

\* The creation or deletion request itself failed: of a database, with a
\* database cached, and of a graph.
FailedCreateDeleteKeepsCache ==
    \/ /\ last.op \in {"create_database", "delete_database"}
       /\ last.outcome \in {"DatabaseCreateError", "DatabaseDeleteError"}
       /\ Keys(caches[last.cache]) # {}
    \/ /\ last.op \in {"create_graph", "delete_graph"}
       /\ last.outcome \in {"GraphCreateError", "GraphDeleteError"}

---------------------------------------------------------------------------
(* Two threads resolving on one handle. The methods take no lock; under    *)
(* the interpreter's lock a thread may be suspended between any two        *)
(* statements, and one lookup, one deletion and one assignment on the dict *)
(* are each indivisible.                                                   *)

Threads == {1, 2}

\* A thread outside database() and collection().
AtRest ==
    [pc |-> "rest", name |-> None, real |-> {}, cached |-> {}, todo |-> {},
     refreshed |-> FALSE, outcome |-> None, at |-> "rest"]

\* The cache the threads of a run share.
Shared == CHOOSE c \in DOMAIN caches : TRUE

\* The thread t leaves the method with the outcome, at the statement it
\* stands at.
Left(t, outcome) ==
    threads' = [threads EXCEPT ![t].pc = "rest", ![t].todo = {},
                               ![t].outcome = outcome,
                               ![t].at = threads[t].pc]

\* if name in self._database_cache: ... else: ...
ThreadLookup ==
    /\ \E t \in Threads, name \in Names :
         /\ threads[t].pc = "rest"
         /\ threads' = [threads EXCEPT ![t] =
               [AtRest EXCEPT !.name = name,
                              !.pc = IF CacheHit(caches[Shared], name)
                                     THEN "return" ELSE "list"]]
    /\ UNCHANGED <<connection, traversals, stored>>
    /\ UNCHANGED <<cvars, kvars, avars>>

\* real_dbs = set(self.databases["all"]): the listing, which raises when a
\* request of it fails.
ThreadList ==
    /\ \E t \in Threads :
       \E sts \in [1..Len(ListPaths(Shared[2])) -> ListStatuses] :
         /\ threads[t].pc = "list"
         /\ IF Listing(Shared[2], sts).ok
            THEN threads' = [threads EXCEPT ![t].pc = "snapshot",
                                            ![t].real = server[Shared[2]],
                                            ![t].refreshed = TRUE]
            ELSE Left(t, ListError(Shared[2]))
    /\ UNCHANGED <<connection, traversals, stored>>
    /\ UNCHANGED <<cvars, kvars, avars>>

\* cached_dbs = set(self._database_cache), and the set the first loop runs
\* over, cached_dbs - real_dbs.
ThreadSnapshot ==
    /\ \E t \in Threads :
         /\ threads[t].pc = "snapshot"
         /\ LET cached == Keys(caches[Shared])
                dels   == cached \ threads[t].real
                adds   == threads[t].real \ cached
            IN  threads' = [threads EXCEPT
                   ![t].cached = cached,
                   ![t].pc = IF dels # {} THEN "del"
                             ELSE IF adds # {} THEN "add" ELSE "recheck",
                   ![t].todo = IF dels # {} THEN dels ELSE adds]
    /\ UNCHANGED <<connection, traversals, stored>>
    /\ UNCHANGED <<cvars, kvars, avars>>

\* del self._database_cache[db_name], for one name of the first loop: a
\* KeyError if the dict no longer holds the key.
ThreadDelete ==
    /\ \E t \in Threads : \E n \in threads[t].todo :
         /\ threads[t].pc = "del"
         /\ IF caches[Shared][n] = 0
            THEN /\ Left(t, "KeyError")
                 /\ UNCHANGED <<caches, proxies>>
            ELSE LET cs   == Stored(caches, Shared,
                                    [caches[Shared] EXCEPT ![n] = 0])
                     rest == threads[t].todo \ {n}
                     adds == threads[t].real \ threads[t].cached
                 IN  /\ caches' = cs
                     /\ proxies' = Constructed(proxies, cs, Shared)
                     /\ threads' = [threads EXCEPT
                           ![t].pc = IF rest # {} THEN "del"
                                     ELSE IF adds # {} THEN "add"
                                     ELSE "recheck",
                           ![t].todo = IF rest # {} THEN rest ELSE adds]
    /\ UNCHANGED <<server, authoritative, last>>
    /\ UNCHANGED <<connection, traversals, stored>>
    /\ UNCHANGED <<cvars, avars>>

\* self._database_cache[db_name] = Database(self.conn, db_name), for one
\* name of the second loop: a new object, put in place of any entry the
\* dict holds for the name.
ThreadAdd ==
    /\ \E t \in Threads : \E n \in threads[t].todo :
         /\ threads[t].pc = "add"
         /\ IF ~Binds(InitParams(Shared[2]), ProxyCall(Shared[2]))
            THEN /\ Left(t, "TypeError")
                 /\ UNCHANGED <<caches, proxies>>
            ELSE LET o    == NewObject(ObjectsIn(caches))
                     cs   == Stored(caches, Shared,
                                    [caches[Shared] EXCEPT ![n] = o])
                     rest == threads[t].todo \ {n}
                 IN  /\ caches' = cs
                     /\ proxies' =
                          [x \in ObjectsIn(cs) |->
                              IF x = o
                              THEN [class |-> ProxyClass(Shared[2]),
                                    name |-> n]
                              ELSE proxies[x]]
                     /\ threads' = [threads EXCEPT
                           ![t].pc = IF rest # {} THEN "add" ELSE "recheck",
                           ![t].todo = rest]
    /\ UNCHANGED <<server, authoritative, last>>
    /\ UNCHANGED <<connection, traversals, stored>>
    /\ UNCHANGED <<cvars, avars>>

\* if name not in self._database_cache: raise DatabaseNotFoundError(name)
ThreadRecheck ==
    /\ \E t \in Threads :
         /\ threads[t].pc = "recheck"
         /\ IF CacheHit(caches[Shared], threads[t].name)
            THEN threads' = [threads EXCEPT ![t].pc = "return"]
            ELSE Left(t, NotFoundError(Shared[2]))
    /\ UNCHANGED <<connection, traversals, stored>>
    /\ UNCHANGED <<cvars, kvars, avars>>

\* return self._database_cache[name]: a KeyError if the dict no longer
\* holds the key.
ThreadReturn ==
    /\ \E t \in Threads :
         /\ threads[t].pc = "return"
         /\ IF caches[Shared][threads[t].name] = 0
            THEN Left(t, "KeyError")
            ELSE Left(t, "proxy")
    /\ UNCHANGED <<connection, traversals, stored>>
    /\ UNCHANGED <<cvars, kvars, avars>>

\* Arango.__init__ or Database.__init__: the cache of the handle starts
\* empty, and two threads hold the handle.
InitThreads ==
    /\ \E c \in {<<"arango", "db">>, <<"d1", "col">>} :
         /\ server \in [{c[2]} -> SUBSET Names]
         /\ caches = [x \in {c} |-> EmptyCache]
         /\ authoritative = [x \in {c} |-> {}]
    /\ proxies = <<>>
    /\ last = NoCall
    /\ threads = [t \in Threads |-> AtRest]
    /\ CursorIdle
    /\ MutationsIdle
    /\ ConnectionIdle
    /\ TraversalsIdle

NextThreads ==
    \/ ThreadLookup
    \/ ThreadList
    \/ ThreadSnapshot
    \/ ThreadDelete
    \/ ThreadAdd
    \/ ThreadRecheck
    \/ ThreadReturn
    \/ ServerChange

SpecThreads == InitThreads /\ [][NextThreads]_vars

---------------------------------------------------------------------------
(* Interleaved refreshes.                                                  *)

\* Both threads are outside the method, each after a call that refreshed
\* the cache and ran to its end.
BothRefreshed ==
    \A t \in Threads :
        /\ threads[t].pc = "rest"
        /\ threads[t].refreshed
        /\ threads[t].outcome \in {"proxy", NotFoundError(Shared[2])}

\* C29 -- When two resolve calls on one handle interleave their refreshes,
\* no refresh ever attempts to remove a cache key that is no longer
\* present, and after both have finished the key set of the cache equals
\* the authoritative set fetched by one of them.
InterleavedRefreshesConverge ==
    /\ \A t \in Threads :
          ~(threads[t].outcome = "KeyError" /\ threads[t].at = "del")
    /\ BothRefreshed =>
          \E t \in Threads : Keys(caches[Shared]) = threads[t].real

\* The first half of it alone: no deletion of a key the dict has lost.
InterleavedRefreshesNoKeyError ==
    \A t \in Threads :
        ~(threads[t].outcome = "KeyError" /\ threads[t].at = "del")

\* The second half of it alone: the key set after both have finished.
InterleavedRefreshesKeys ==
    BothRefreshed =>
        \E t \in Threads : Keys(caches[Shared]) = threads[t].real

\* What holds of interleaved refreshes: a cached name goes back to an
\* object built for that name, and after both have finished the keys lie
\* within the names the two fetched.
InterleavedRefreshesBounded ==
    /\ \A n \in Keys(caches[Shared]) :
          proxies[caches[Shared][n]].name = n
    /\ BothRefreshed =>
          Keys(caches[Shared]) \subseteq
              UNION {threads[t].real : t \in Threads}

---------------------------------------------------------------------------
(* Two traversals side by side: two generator objects of create_cursor,   *)
(* each with a frame of its own, against a server that holds the          *)
(* undelivered pages of each query under the query's cursor id.           *)

Traversals == {1, 2}

\* The id the server gave the cursor of the query of traversal k.
CursorOf(k) == IF k = 1 THEN "c1" ELSE "c2"

\* The page sizes of a query result.
PagePlans == {<<1>>, <<1, 1>>, <<0, 2>>, <<2, 1, 1>>}

RECURSIVE SumTo(_, _)
SumTo(plan, i) == IF i = 0 THEN 0 ELSE plan[i] + SumTo(plan, i - 1)

\* The pages of the query of traversal k: its records are numbered on from
\* 10 * k, so that no record belongs to both queries.
PagesOf(k, plan) ==
    [i \in 1..Len(plan) |->
        [j \in 1..plan[i] |-> 10 * k + SumTo(plan, i - 1) + j]]

\* The answer to POST /cursor for the pages: the first page, and the cursor
\* id if more pages are held.
FirstResponse(k, pages) ==
    [method |-> "post", status_code |-> 201, result |-> pages[1],
     hasMore |-> Len(pages) > 1,
     id |-> IF Len(pages) > 1 THEN CursorOf(k) ELSE NoId]

\* The frame of a generator that create_cursor(response) has created: none
\* of the body has run.
NewFrame(resp) ==
    [pc |-> "created", demand |-> FALSE, response |-> resp, idx |-> 1,
     cursor_id |-> None, emitted |-> <<>>, requests |-> <<>>,
     raised |-> None]

\* The server's answers to PUT /cursor/<cid>, each with the store it
\* leaves: the next page of that cursor, or a failure; 404 for a cursor it
\* does not hold or has run through.
PutAnswers(cid) ==
    IF cid \in DOMAIN stored /\ ~stored[cid].deleted /\ stored[cid].left # <<>>
    THEN {[resp |-> [method |-> "put", status_code |-> 200,
                     result |-> Head(stored[cid].left),
                     hasMore |-> Len(stored[cid].left) > 1, id |-> cid],
           store |-> [stored EXCEPT ![cid].left = Tail(@)]],
          [resp |-> [method |-> "put", status_code |-> 500,
                     result |-> <<>>, hasMore |-> FALSE, id |-> NoId],
           store |-> stored]}
    ELSE {[resp |-> [method |-> "put", status_code |-> 404,
                     result |-> <<>>, hasMore |-> FALSE, id |-> NoId],
           store |-> stored]}

\* The server's answers to DELETE /cursor/<cid>, each with the store it
\* leaves.
CursorDeleteAnswers(cid) ==
    IF cid \in DOMAIN stored /\ ~stored[cid].deleted
    THEN {[resp |-> [method |-> "delete", status_code |-> 202,
                     result |-> <<>>, hasMore |-> FALSE, id |-> NoId],
           store |-> [stored EXCEPT ![cid].deleted = TRUE]],
          [resp |-> [method |-> "delete", status_code |-> 500,
                     result |-> <<>>, hasMore |-> FALSE, id |-> NoId],
           store |-> stored]}
    ELSE {[resp |-> [method |-> "delete", status_code |-> 404,
                     result |-> <<>>, hasMore |-> FALSE, id |-> NoId],
           store |-> stored]}

\* A cursor id kept in one place for all generators of the object.
FrameCursorIdShared(trs, k) ==
    IF \E j \in DOMAIN trs : trs[j].cursor_id # None
    THEN trs[CHOOSE j \in DOMAIN trs : trs[j].cursor_id # None].cursor_id
    ELSE None

\* cursor_id is a local of the generator's frame.
FrameCursorId(trs, k) == trs[k].cursor_id

\* The consumer of traversal k asks for the next record.
TraversalNext ==
    /\ \E k \in Traversals :
         /\ ~traversals[k].demand
         /\ traversals[k].pc \in {"created"} \cup InFor
         /\ traversals' = [traversals EXCEPT
               ![k].demand = TRUE,
               ![k].pc = IF @ = "created" THEN "for_initial" ELSE @]
    /\ UNCHANGED <<stored, connection, threads>>
    /\ UNCHANGED <<cvars, kvars, avars>>

\* for item in response.obj["result"]: yield item
TraversalYield ==
    /\ \E k \in Traversals :
         /\ traversals[k].demand
         /\ traversals[k].pc \in InFor
         /\ traversals[k].idx <= Len(traversals[k].response.result)
         /\ traversals' = [traversals EXCEPT
               ![k].emitted = Append(@, traversals[k].response.result[
                                            traversals[k].idx]),
               ![k].idx = @ + 1,
               ![k].demand = FALSE]
    /\ UNCHANGED <<stored, connection, threads>>
    /\ UNCHANGED <<cvars, kvars, avars>>

\* The for loop has run through the batch; after the first one,
\* cursor_id = None.
TraversalEndFor ==
    /\ \E k \in Traversals :
         /\ traversals[k].demand
         /\ traversals[k].pc \in InFor
         /\ traversals[k].idx > Len(traversals[k].response.result)
         /\ traversals' = [traversals EXCEPT
               ![k].pc = "while",
               ![k].cursor_id = IF traversals[k].pc = "for_initial"
                                THEN None ELSE @]
    /\ UNCHANGED <<stored, connection, threads>>
    /\ UNCHANGED <<cvars, kvars, avars>>

\* One turn of the while loop up to its for loop: capture the id, ask for
\* the next batch, check the status.
TraversalFetch ==
    /\ \E k \in Traversals :
         /\ traversals[k].demand
         /\ traversals[k].pc = "while"
         /\ MoreToFetch(traversals[k].response)
         /\ LET cid == CaptureId(FrameCursorId(traversals, k),
                                 traversals[k].response)
            IN  \E a \in PutAnswers(cid) :
                  /\ stored' = a.store
                  /\ traversals' = [traversals EXCEPT
                        ![k].cursor_id = cid,
                        ![k].requests = Append(@, PutRequest(cid)),
                        ![k].response = a.resp,
                        ![k].pc = IF ContinuationOk(a.resp.status_code)
                                  THEN "for_page" ELSE "raised",
                        ![k].idx = IF ContinuationOk(a.resp.status_code)
                                   THEN 1 ELSE @,
                        ![k].raised = IF ContinuationOk(a.resp.status_code)
                                      THEN @ ELSE "AQLQueryExecuteError",
                        ![k].demand = ContinuationOk(a.resp.status_code)]
    /\ UNCHANGED <<connection, threads>>
    /\ UNCHANGED <<cvars, kvars, avars>>

\* The while condition is false: the loop is left.
TraversalExitLoop ==
    /\ \E k \in Traversals :
         /\ traversals[k].demand
         /\ traversals[k].pc = "while"
         /\ ~MoreToFetch(traversals[k].response)
         /\ traversals' = [traversals EXCEPT ![k].pc = "cleanup"]
    /\ UNCHANGED <<stored, connection, threads>>
    /\ UNCHANGED <<cvars, kvars, avars>>

\* if cursor_id is not None: delete the cursor and check the status; then
\* the body ends.
TraversalCleanup ==
    /\ \E k \in Traversals :
         /\ traversals[k].demand
         /\ traversals[k].pc = "cleanup"
         /\ LET cid == FrameCursorId(traversals, k)
            IN  IF cid # None
                THEN \E a \in CursorDeleteAnswers(cid) :
                       /\ stored' = a.store
                       /\ traversals' = [traversals EXCEPT
                             ![k].demand = FALSE,
                             ![k].requests = Append(@, DeleteRequest(cid)),
                             ![k].response = a.resp,
                             ![k].pc = IF DeletionOk(a.resp.status_code)
                                       THEN "done" ELSE "raised",
                             ![k].raised = IF DeletionOk(a.resp.status_code)
                                           THEN @ ELSE "CursorDeleteError"]
                ELSE /\ traversals' = [traversals EXCEPT
                             ![k].demand = FALSE, ![k].pc = "done"]
                     /\ UNCHANGED stored
    /\ UNCHANGED <<connection, threads>>
    /\ UNCHANGED <<cvars, kvars, avars>>

\* The consumer of traversal k stops iterating while the generator is
\* suspended.
TraversalStop ==
    /\ \E k \in Traversals :
         /\ ~traversals[k].demand
         /\ traversals[k].pc \in {"created"} \cup InFor
         /\ traversals' = [traversals EXCEPT ![k].pc = "closed"]
    /\ UNCHANGED <<stored, connection, threads>>
    /\ UNCHANGED <<cvars, kvars, avars>>

\* Two queries have been executed and create_cursor has been called on the
\* response of each.
InitTraversals ==
    /\ \E plans \in [Traversals -> PagePlans] :
         /\ traversals =
               [k \in Traversals |->
                   NewFrame(FirstResponse(k, PagesOf(k, plans[k])))]
         /\ stored =
               [cid \in {CursorOf(k) : k \in Traversals} |->
                   LET k == CHOOSE j \in Traversals : CursorOf(j) = cid
                   IN  [all |-> PagesOf(k, plans[k]),
                        left |-> Tail(PagesOf(k, plans[k])),
                        deleted |-> Len(plans[k]) = 1]]
    /\ CursorIdle
    /\ CachesIdle
    /\ MutationsIdle
    /\ ConnectionIdle
    /\ ThreadsIdle

NextTraversals ==
    \/ TraversalNext
    \/ TraversalYield
    \/ TraversalEndFor
    \/ TraversalFetch
    \/ TraversalExitLoop
    \/ TraversalCleanup
    \/ TraversalStop

SpecTraversals == InitTraversals /\ [][NextTraversals]_vars

---------------------------------------------------------------------------
(* Independence of two traversals.                                         *)

\* s is an initial part of t.
IsPrefix(s, t) ==
    /\ Len(s) <= Len(t)
    /\ \A i \in 1..Len(s) : s[i] = t[i]

\* What traversal k does when it runs alone, given what the server has
\* delivered of its own cursor and whether its own requests failed: it has
\* yielded an initial part of its own query's records, one continuation
\* request to its own cursor per page delivered after the first and one
\* for a failed fetch, and then at most one deletion of its own cursor;
\* having ended normally, it has yielded every record.
AsWhenAlone(k) ==
    LET f    == traversals[k]
        own  == stored[CursorOf(k)]
        got  == Len(own.all) - 1 - Len(own.left)
        n    == Len(Puts(f.requests))
    IN  /\ IsPrefix(f.emitted, Flatten(own.all))
        /\ \A i \in DOMAIN f.requests :
              f.requests[i].args = << <<"/cursor", CursorOf(k)>> >>
        /\ n = got + (IF f.raised = "AQLQueryExecuteError" THEN 1 ELSE 0)
        /\ f.requests = [i \in 1..n |-> PutRequest(CursorOf(k))] \o
                        Deletes(f.requests)
        /\ Len(Deletes(f.requests)) <= 1
        /\ f.pc = "done" =>
              /\ f.emitted = Flatten(own.all)
              /\ Len(Deletes(f.requests)) =
                    (IF Len(own.all) > 1 THEN 1 ELSE 0)

\* A step moves one traversal and leaves the frame of the other as it is.
OneFrameMoves ==
    \E k \in Traversals :
        \A j \in Traversals \ {k} : traversals'[j] = traversals[j]

\* C25 -- Two independent cursor traversals share no mutable state: under
\* any interleaving of their steps each yields the same record sequence
\* and issues the same requests, to its own cursor id only, as it would
\* when run alone.
TraversalsIndependent ==
    /\ [](\A k \in Traversals : AsWhenAlone(k))
    /\ [][OneFrameMoves]_vars

\* Both traversals have run to their end, side by side, through results
\* of several pages.
TraversalsIndependentWitness ==
    /\ traversals[1].pc = "done"
    /\ traversals[2].pc = "done"
    /\ Len(Puts(traversals[1].requests)) = 2
    /\ Len(Puts(traversals[2].requests)) = 1
    /\ traversals[1].emitted = <<11, 12, 13, 14>>
    /\ traversals[2].emitted = <<21, 22>>

---------------------------------------------------------------------------
(* The create methods, and the descriptors of batched calls.               *)

\* The data argument of a create: a dict with or without the keys "_from"
\* and "_to".
CreateDataValues ==
    {"x" :> "v",
     ("x" :> "v") @@ ("_from" :> "v/1"),
     ("x" :> "v") @@ ("_from" :> "v/1") @@ ("_to" :> "v/2")}

\* Status codes the server answers a create with.
CreateStatuses == {201, 202, 409, 500}

\* The common tail of the create methods: under _batch the descriptor desc
\* is returned and nothing is sent; otherwise the request is sent and a
\* status outside HTTP_OK raises.
Created(desc, batch, status, err) ==
    IF batch
    THEN [sent |-> <<>>, status |-> 0, outcome |-> "descriptor",
          result |-> desc]
    ELSE [sent |-> <<desc>>, status |-> status, result |-> <<>>,
          outcome |-> IF status \notin HTTP_OK THEN err ELSE "returned"]

\* if "_from" in data: params["from"] = data["_from"], and the same for
\* "_to".
FromTo(params, data) ==
    (IF "_from" \in DOMAIN data THEN "from" :> data["_from"] ELSE <<>>)
    @@ (IF "_to" \in DOMAIN data THEN "to" :> data["_to"] ELSE <<>>)
    @@ params

\* DocumentAPI.create_document
create_document(data, wait_for_sync, batch, status) ==
    LET params == FromTo(("collection" :> "col")
                         @@ ("waitForSync" :> wait_for_sync), data)
    IN  Created([method |-> "post", path |-> <<"document">>,
                 data |-> data, params |-> params],
                batch, status, "DocumentAddError")

\* VertexAPI.create_vertex
create_vertex(collection, data, wait_for_sync, batch, status) ==
    Created([method |-> "post",
             path |-> <<"gharial", "g", "vertex", collection>>,
             data |-> data, params |-> "waitForSync" :> wait_for_sync],
            batch, status, "VertexCreateError")

\* EdgeAPI.create_edge: data without "_to" or "_from" raises before
\* anything else.
create_edge(collection, data, wait_for_sync, batch, status) ==
    IF "_to" \notin DOMAIN data \/ "_from" \notin DOMAIN data
    THEN [sent |-> <<>>, status |-> 0, outcome |-> "EdgeInvalidError",
          result |-> <<>>]
    ELSE Created([method |-> "post",
                  path |-> <<"gharial", "g", "edge", collection>>,
                  data |-> data, params |-> "waitForSync" :> wait_for_sync],
                 batch, status, "EdgeCreateError")

CreateDocument ==
    \E data \in CreateDataValues,
       wait_for_sync \in BOOLEAN,
       batch \in BOOLEAN,
       status \in CreateStatuses :
        /\ batch => status = 201
        /\ mutation' = Called("create_document", data, None, batch,
                              create_document(data, wait_for_sync, batch,
                                  status))
                       @@ CallArgs(wait_for_sync, FALSE)
        /\ UNCHANGED <<cvars, kvars, lastBatch, xvars>>

CreateVertex ==
    \E data \in CreateDataValues,
       wait_for_sync \in BOOLEAN,
       batch \in BOOLEAN,
       status \in CreateStatuses :
        /\ batch => status = 201
        /\ mutation' = Called("create_vertex", data, None, batch,
                              create_vertex("vcol", data, wait_for_sync,
                                  batch, status))
                       @@ CallArgs(wait_for_sync, FALSE)
        /\ UNCHANGED <<cvars, kvars, lastBatch, xvars>>

CreateEdge ==
    \E data \in CreateDataValues,
       wait_for_sync \in BOOLEAN,
       batch \in BOOLEAN,
       status \in CreateStatuses :
        /\ batch => status = 201
        /\ mutation' = Called("create_edge", data, None, batch,
                              create_edge("ecol", data, wait_for_sync,
                                  batch, status))
                       @@ CallArgs(wait_for_sync, FALSE)
        /\ UNCHANGED <<cvars, kvars, lastBatch, xvars>>

NextDescriptors ==
    \/ CreateDocument
    \/ CreateVertex
    \/ CreateEdge
    \/ UpdateDocument
    \/ ReplaceDocument
    \/ DeleteDocument
    \/ UpdateVertex
    \/ ReplaceVertex
    \/ DeleteVertex
    \/ UpdateEdge
    \/ ReplaceEdge
    \/ DeleteEdge

\* The twelve batchable mutations, called directly or under _batch.
SpecDescriptors == InitMutation /\ [][NextDescriptors]_vars

\* What the method of the recorded call m does when it is called directly
\* with the same arguments and the server accepts the request.
Direct(m) ==
    CASE m.func = "create_document" ->
            create_document(m.data, m.wait_for_sync, FALSE, 201)
      [] m.func = "create_vertex" ->
            create_vertex("vcol", m.data, m.wait_for_sync, FALSE, 201)
      [] m.func = "create_edge" ->
            create_edge("ecol", m.data, m.wait_for_sync, FALSE, 201)
      [] m.func = "update_document" ->
            update_document("k", m.data, m.rev, m.keep_none,
                            m.wait_for_sync, FALSE, 200)
      [] m.func = "replace_document" ->
            replace_document("k", m.data, m.rev, m.wait_for_sync, FALSE, 200)
      [] m.func = "delete_document" ->
            delete_document("k", m.rev, m.wait_for_sync, FALSE, 200)
      [] m.func = "update_vertex" ->
            update_vertex("k", m.data, m.rev, m.keep_none, m.wait_for_sync,
                          FALSE, 200)
      [] m.func = "replace_vertex" ->
            replace_vertex("k", m.data, m.rev, m.wait_for_sync, FALSE, 200)
      [] m.func = "delete_vertex" ->
            delete_vertex("k", m.rev, m.wait_for_sync, FALSE, 200)
      [] m.func = "update_edge" ->
            update_edge("k", m.data, m.rev, m.keep_none, m.wait_for_sync,
                        FALSE, 200)
      [] m.func = "replace_edge" ->
            replace_edge("k", m.data, m.rev, m.wait_for_sync, FALSE, 200)
      [] m.func = "delete_edge" ->
            delete_edge("k", m.rev, m.wait_for_sync, FALSE, 200)

\* The descriptor the recorded call returned has the method, the path and
\* the params of the request the direct call sends, and carries a supplied
\* rev in its params.
DescriptorAsDirect(m) ==
    /\ Len(Direct(m).sent) = 1
    /\ m.result.method = Direct(m).sent[1].method
    /\ m.result.path = Direct(m).sent[1].path
    /\ m.result.params = Direct(m).sent[1].params
    /\ m.rev # None => "rev" \in DOMAIN m.result.params

\* C30 -- For every batchable mutation (create, update, replace, delete of
\* a document, a vertex, an edge) and every argument combination, the
\* descriptor returned under _batch=True has the same method, path and
\* params as the request the direct call would send; in particular a
\* supplied rev appears in the descriptor's params.
DescriptorMatchesRequest ==
    (mutation.func # "none" /\ mutation.outcome = "descriptor")
        => DescriptorAsDirect(mutation)

\* What holds of it: the descriptors of the other eleven methods match, and
\* the descriptor of delete_edge matches when no rev is supplied and lacks
\* the rev otherwise.
DescriptorMatchesButDeleteEdge ==
    (mutation.func # "none" /\ mutation.outcome = "descriptor")
        => IF mutation.func = "delete_edge" /\ mutation.rev # None
           THEN /\ "rev" \notin DOMAIN mutation.result.params
                /\ Direct(mutation).sent[1].params["rev"] = mutation.rev
           ELSE DescriptorAsDirect(mutation)

===========================================================================
